---- MODULE Spec2Model ----
(***************************************************************************)
(* State-machine model of the DigitalDNAHub component                      *)
(* (src/src/components/DigitalDNAHub.tsx) and of the education store       *)
(* actions it calls (src/src/lib/education/store.ts).                      *)
(*                                                                         *)
(* Time is performance.now() in units of 1/TimeUnit ms.  React state       *)
(* updates made by a handler are committed before the next event is        *)
(* handled, so a handler and the re-render it causes are one step; values  *)
(* derived during render (asmmrRitualReady, asmmrFocusScore) are operators *)
(* over the state.  The ripple and spark arrays of the 2-D renderers are   *)
(* followed only where fade.followed is set (SpecFade); elsewhere they     *)
(* stay empty, since nothing but the drawing reads them.  One              *)
(* specification is given per group of operations: SpecRitual, SpecModes,  *)
(* SpecPointers, SpecInteraction, SpecLesson, SpecPaintFull, SpecPaint,    *)
(* SpecPaintTwo, SpecPlay, SpecPlayLive, SpecConfig, SpecDigits,           *)
(* SpecSurface, SpecGlide, SpecThrottle, SpecHelix, SpecFade, SpecScore    *)
(* and SpecStore.                                                          *)
(***************************************************************************)
EXTENDS Integers, Sequences, FiniteSets, TLC

(***************************************************************************)
(* Bounds of the model                                                     *)
(***************************************************************************)
MaxPointers == 2
MaxCoord == 1
MaxNow == 2600
MaxInteractions == 12
MaxWaiters == 2
MaxRafId == 4
MaxPad == 1
MaxRippleOver == 1
MaxToneOver == 1
MaxPaint == 14
MaxPointerEvents == 6
MaxInteractionNow == 67
MaxInteractionCount == 7
MaxStoreCalls == 4
MaxFullCount == 4
MaxPaintCount == 3
MaxPlays == 3
MaxPlayNow == 60000
MaxPlayLiveNow == 120000
MaxFillStrokes == 855
TimeUnit == 10
MaxGlideNow == 841
MaxThrottleNow == 200
MaxThrottleRipples == 4
MaxHelixCoord == 2
MaxHelixPresses == 4
MaxHelixTurns == 2
MaxFadeRafId == 75
MaxFadeBurst == 2
MaxLessonId == 5
MaxQueue == 4

(***************************************************************************)
(* Program constants                                                       *)
(***************************************************************************)
INTERACTION_THROTTLE_MS == 34

\* n milliseconds, in the units of performance.now().
Ms(n) == n * TimeUnit

\* Math.round of a time, in milliseconds: halves round up.
RoundMs(t) == (2 * t + TimeUnit) \div (2 * TimeUnit)

MAX_PAINT_POINTS == 6000

ASMMR_TARGETS ==
  [rippleBursts |-> 18, toneBursts |-> 8, glideMs |-> 2600, reflectionChars |-> 36]

ModeKey == {"spiral", "mandala", "sound", "particles", "asmr", "journey"}

CanvasModes == {"spiral", "mandala", "particles", "asmr"}

PointerIds == 1..MaxPointers

Points == {[x |-> c, y |-> c] : c \in 0..MaxCoord}

SeedKey == {"red", "black", "blue"}

\* PointerEvent.pointerType: the mouse is pointer 1, the others are touches.
PointerType(id) == IF id = 1 THEN "mouse" ELSE "touch"

\* PointerEvent.pressure in hundredths; 0 is a device that reports none.
PressureInputs == {0, 50}

(***************************************************************************)
(* Pure helpers                                                            *)
(***************************************************************************)
Min2(a, b) == IF a < b THEN a ELSE b

Max2(a, b) == IF a > b THEN a ELSE b

clamp(value, lo, hi) == Max2(lo, Min2(hi, value))

\* The seeds' characters, SEEDS[key].split('').
SEEDS ==
  [red   |-> <<"1", "1", "3", "0", "3", "1", "4", "9", "1", "4", "9", "3", "5", "8", "5",
          "3", "8", "9", "5", "4", "3", "7", "7", "8", "7", "7", "4", "5", "9", "0",
          "9", "9", "7", "0", "7", "9", "6", "1", "9", "6", "1", "7", "5", "2", "5",
          "7", "2", "1", "5", "6", "7", "3", "3", "2", "3", "3", "6", "5", "1", "0">>,
   black |-> <<"0", "1", "1", "2", "3", "5", "8", "3", "1", "4", "5", "9", "4", "3", "7",
          "0", "7", "7", "4", "1", "5", "6", "1", "7", "8", "5", "3", "8", "1", "9",
          "0", "9", "9", "8", "7", "5", "2", "7", "9", "6", "5", "1", "6", "7", "3",
          "0", "3", "3", "6", "9", "5", "4", "9", "3", "2", "5", "7", "2", "9", "1">>,
   blue  |-> <<"0", "1", "2", "7", "7", "6", "3", "2", "9", "7", "8", "5", "8", "9", "3",
          "0", "3", "6", "1", "1", "8", "9", "6", "7", "1", "4", "5", "4", "7", "9",
          "0", "9", "8", "3", "3", "4", "7", "8", "1", "3", "2", "5", "2", "1", "7",
          "0", "7", "4", "9", "9", "2", "1", "4", "3", "9", "6", "5", "6", "3", "1">>]

SCALE == <<"C4", "D4", "E4", "F4", "G4", "A4", "B4", "C5", "D5", "E5">>

COLORS ==
  <<"#1a1a2e", "#16213e", "#0f3460", "#533483", "#8b5cf6",
    "#ffd700", "#ff6b6b", "#4ecdc4", "#95e1d3", "#f38181">>

ASMR_COLORS ==
  <<"#60a5fa", "#34d399", "#fbbf24", "#f87171", "#a78bfa",
    "#38bdf8", "#4ade80", "#facc15", "#fb923c", "#e879f9">>

\* Math.round of a number given in tenths: the nearest integer, halves upwards.
MathRound(tenths) == (tenths + 5) \div 10

DecimalDigits == <<"0", "1", "2", "3", "4", "5", "6", "7", "8", "9">>

\* Number(ch) of a one-character string; NaN for a character that is no digit.
Number(ch) ==
  IF \E k \in DOMAIN DecimalDigits : DecimalDigits[k] = ch
  THEN (CHOOSE k \in DOMAIN DecimalDigits : DecimalDigits[k] = ch) - 1
  ELSE "NaN"

\* getSequence() for the seed key: SEEDS[key].split('').map(Number).
getSequence(key) == [i \in DOMAIN SEEDS[key] |-> Number(SEEDS[key][i])]

\* Element idx of a JavaScript array, whose first index is 0.
At(array, idx) == array[idx + 1]

digitToNote_ShortClamp(tenths) ==
  At(SCALE, clamp(MathRound(tenths), 0, Len(SCALE) - 2))

\* digitToNote(digit), digitToColor(digit) and digitToAsmrColor(digit) of a
\* number given in tenths.
digitToNote(tenths) ==
  At(SCALE, clamp(MathRound(tenths), 0, Len(SCALE) - 1))

digitToColor(tenths) ==
  At(COLORS, clamp(MathRound(tenths), 0, Len(COLORS) - 1))

digitToAsmrColor(tenths) ==
  At(ASMR_COLORS, clamp(MathRound(tenths), 0, Len(ASMR_COLORS) - 1))

\* A text is a sequence of characters; " " is whitespace, "x" is not.
Spaces(n) == [i \in 1..n |-> " "]

Letters(n) == [i \in 1..n |-> "x"]

\* String.prototype.trim(): drop the leading and the trailing whitespace.
RECURSIVE TrimStart(_)
TrimStart(s) ==
  IF s # <<>> /\ Head(s) = " " THEN TrimStart(Tail(s)) ELSE s

RECURSIVE TrimEnd(_)
TrimEnd(s) ==
  IF s # <<>> /\ s[Len(s)] = " " THEN TrimEnd(SubSeq(s, 1, Len(s) - 1)) ELSE s

Trim(s) == TrimEnd(TrimStart(s))

\* Map operations of the per-renderer session maps.
MapSet(f, k, v) == [j \in DOMAIN f \cup {k} |-> IF j = k THEN v ELSE f[j]]

MapDelete(f, k) == [j \in DOMAIN f \ {k} |-> f[j]]

EmptyMap == <<>>

VARIABLES
  now,                    \* performance.now()
  mounted,                \* the hub component is mounted
  lessonContext,          \* the lessonContext prop is present
  prePrompt,              \* lessonContext.prePrompt is a non-empty string
  postPrompt,             \* lessonContext.postPrompt is a non-empty string
  preAcknowledged,        \* useState preAcknowledged
  showPostPrompt,         \* useState showPostPrompt
  postResponse,           \* useState postResponse
  storeCalls,             \* calls of recordPostResponse and completeLesson, in order
  queue,                  \* the education store's queue: id and position of each lesson
  activeMode,             \* useState activeMode
  visitedModes,           \* useState visitedModes
  effectLive,             \* per canvas mode: the effect returned a cleanup
  listeners,              \* per canvas mode: event types with a listener attached
  observers,              \* per canvas mode: ResizeObserver and window resize attached
  animId,                 \* per canvas mode: the effect's animId
  rafQueue,               \* the browser's pending animation-frame callbacks
  nextRafId,              \* next handle requestAnimationFrame returns
  pointers,               \* per canvas mode: the effect's pointers Map
  contacts,               \* pointers pressed since the renderer's setup, not yet released
  lastToneAt,             \* per canvas mode: the effect's lastToneAt
  audioRunning,           \* Tone.context.state = 'running'
  audioInitializedRef,    \* audioInitializedRef.current
  audioWaiters,           \* continuations awaiting Tone.start()
  asmmrRitual,            \* useState asmmrRitual
  asmmrReflection,        \* useState asmmrReflection
  lastInteractionMsRef,   \* lastInteractionMsRef.current
  sessionInteractionRef,  \* sessionInteractionRef.current (= sessionInteractions)
  lessonInteractionRef,   \* lessonInteractionRef.current
  dnaInteractions,        \* calls of the store's incrementDnaInteraction
  isPlaying,              \* useState isPlaying
  playCount,              \* useState playCount
  timers,                 \* due times of the pending setTimeout callbacks
  tempo,                  \* useState tempo
  harmony,                \* useState harmony
  selectedSeed,           \* useState selectedSeed
  consciousness,          \* useState consciousness
  paintedPatternRef,      \* paintedPatternRef.current
  paintedPattern,         \* useState paintedPattern
  clientWidth,            \* canvas.parentElement.clientWidth
  innerHeight,            \* window.innerHeight
  devicePixelRatio,       \* window.devicePixelRatio, in hundredths
  canvas,                 \* the 2-D canvas element: style size, buffer size, transform
  surface,                \* per 2-D mode: the effect's W and H
  particleCount,          \* particlesRef.current.length
  digit,                  \* argument of the digit helpers, in tenths
  note,                   \* value digitToNote returned for it, "" before the call
  color,                  \* value digitToColor returned for it
  asmrColor,              \* value digitToAsmrColor returned for it
  lastMoveToneAt,         \* time of the last triggerTone call of the asmr onMove, if any
  lastSessionEmitAt,      \* per pointer: time of its last counted asmr ripple of onDown or onMove
  helix,                  \* the spiral effect's camera.position.z, pinchDist, targetRotX, targetRotY
  becameTwo,              \* how the spiral session count last became two, no session moved since
  fade                    \* the ripples and sparks arrays of the 2-D effects, as their alpha values

vars ==
  <<now, mounted, lessonContext, prePrompt, postPrompt, preAcknowledged,
    showPostPrompt, postResponse, storeCalls, queue, activeMode, visitedModes, effectLive,
    listeners, observers, animId, rafQueue, nextRafId, pointers, contacts, lastToneAt,
    audioRunning, audioInitializedRef, audioWaiters, asmmrRitual, asmmrReflection,
    lastInteractionMsRef, sessionInteractionRef, lessonInteractionRef,
    dnaInteractions, isPlaying, playCount, timers, tempo, harmony, selectedSeed,
    consciousness, paintedPatternRef, paintedPattern, clientWidth, innerHeight,
    devicePixelRatio, canvas, surface, particleCount, digit, note, color,
    asmrColor, lastMoveToneAt, lastSessionEmitAt, helix, becameTwo,
    fade>>

emitVars == <<lastMoveToneAt, lastSessionEmitAt>>

rendererVars == <<helix, becameTwo>>

digitVars == <<digit, note, color, asmrColor>>

lessonVars ==
  <<lessonContext, prePrompt, postPrompt, preAcknowledged, showPostPrompt,
    postResponse, storeCalls, queue>>

modeVars ==
  <<activeMode, visitedModes, effectLive, listeners, observers, animId, rafQueue,
    nextRafId>>

ixVars ==
  <<lastInteractionMsRef, sessionInteractionRef, lessonInteractionRef,
    dnaInteractions>>

audioVars == <<audioRunning, audioInitializedRef, audioWaiters>>

ritualVars == <<asmmrRitual, asmmrReflection>>

playVars == <<isPlaying, playCount, timers>>

configVars == <<tempo, harmony, selectedSeed, consciousness>>

paintVars == <<paintedPatternRef, paintedPattern>>

envVars == <<clientWidth, innerHeight, devicePixelRatio>>

surfaceVars == <<envVars, canvas, surface, particleCount>>

(***************************************************************************)
(* 2-D surfaces: sizing of the canvas of the mandala, particles and asmr   *)
(* renderers.  Lengths are CSS pixels, ratios are in hundredths.           *)
(***************************************************************************)
MAX_PIXEL_RATIO == 2

MIN_SURFACE == 260

INITIAL_SURFACE == 800

SurfaceModes == {"mandala", "particles", "asmr"}

\* The upper limit of the side in the renderer's resize().
MaxSurface(m) == IF m = "mandala" THEN 860 ELSE 900

\* Math.round(n / 100) for n >= 0: halves round up.
RoundHundredths(n) == (n + 50) \div 100

\* Math.min(window.devicePixelRatio || 1, MAX_PIXEL_RATIO), in hundredths.
PixelRatio(ratio) == Min2(IF ratio = 0 THEN 100 ELSE ratio, MAX_PIXEL_RATIO * 100)

\* A canvas element as React mounts it: no style size, the default 300 x 150
\* buffer, no context yet (transform is the context's scale, in hundredths).
FreshCanvas ==
  [styleWidth |-> 0, styleHeight |-> 0, width |-> 300, height |-> 150,
   transform |-> 100]

NoSurface == [W |-> 0, H |-> 0]

setupHiDpiCanvas_Unscaled(cv, width, height, ratio, ctx) ==
  LET sized == [cv EXCEPT !.styleWidth = width, !.styleHeight = height,
                          !.width = width, !.height = height,
                          !.transform = 100]
  IN [canvas |-> IF ctx THEN [sized EXCEPT !.transform = PixelRatio(ratio)] ELSE sized,
      ok |-> ctx, width |-> width, height |-> height]

\* setupHiDpiCanvas(canvas, width, height): ctx tells whether getContext('2d')
\* yields a context.  Assigning canvas.width resets the context's transform.
setupHiDpiCanvas(cv, width, height, ratio, ctx) ==
  LET dpr   == PixelRatio(ratio)
      sized == [cv EXCEPT !.styleWidth = width, !.styleHeight = height,
                          !.width = (width * dpr) \div 100,
                          !.height = (height * dpr) \div 100,
                          !.transform = 100]
  IN [canvas |-> IF ctx THEN [sized EXCEPT !.transform = dpr] ELSE sized,
      ok |-> ctx, width |-> width, height |-> height]

\* Math.round(clamp(Math.min(host.clientWidth, window.innerHeight * 0.62),
\* MIN_SURFACE, max)) of the renderer's resize().
SurfaceSide(m, cw, ih) ==
  RoundHundredths(clamp(Min2(cw * 100, ih * 62), MIN_SURFACE * 100,
                        MaxSurface(m) * 100))

PARTICLE_AREA == 4800

MIN_PARTICLES == 100

MAX_PARTICLES == 240

rebuildParticles_Floor(W, H) ==
  clamp((W * H) \div PARTICLE_AREA, MIN_PARTICLES, MAX_PARTICLES)

\* The length of particlesRef.current after rebuildParticles():
\* clamp(Math.round((W * H) / 4800), 100, 240).
rebuildParticles(W, H) ==
  clamp((2 * W * H + PARTICLE_AREA) \div (2 * PARTICLE_AREA),
        MIN_PARTICLES, MAX_PARTICLES)

\* resize() of the renderer m on the canvas cv; an effect that is set up has
\* obtained the canvas's context, and getContext('2d') yields it again.
\* Yields the canvas, the effect's W and H and the particle count.
Resized(m, cv, cw, ih, ratio, count) ==
  LET side  == SurfaceSide(m, cw, ih)
      setup == setupHiDpiCanvas(cv, side, side, ratio, TRUE)
  IN [canvas |-> setup.canvas,
      surface |-> [W |-> setup.width, H |-> setup.height],
      particles |-> IF m = "particles" THEN rebuildParticles(setup.width, setup.height)
                    ELSE count]

\* The start of a 2-D effect: setupHiDpiCanvas(canvas, 800, 800), then, if it
\* yields a context, resize().  Without a context the effect returns.
SurfaceSetup(m, cv, ctx) ==
  LET first == setupHiDpiCanvas(cv, INITIAL_SURFACE, INITIAL_SURFACE,
                                devicePixelRatio, ctx)
  IN IF first.ok
     THEN Resized(m, first.canvas, clientWidth, innerHeight, devicePixelRatio,
                  particleCount)
     ELSE [canvas |-> first.canvas, surface |-> NoSurface, particles |-> particleCount]

\* The window or the host element is resized: the ResizeObserver and the
\* window's resize listener of the live 2-D renderer call resize().
WindowResized(cw, ih, ratio) ==
  /\ <<cw, ih, ratio>> # envVars
  /\ clientWidth' = cw
  /\ innerHeight' = ih
  /\ devicePixelRatio' = ratio
  /\ IF mounted /\ activeMode \in SurfaceModes /\ observers[activeMode]
     THEN LET r == Resized(activeMode, canvas, cw, ih, ratio, particleCount)
          IN /\ canvas' = r.canvas
             /\ surface' = [surface EXCEPT ![activeMode] = r.surface]
             /\ particleCount' = r.particles
     ELSE UNCHANGED <<canvas, surface, particleCount>>
  /\ UNCHANGED <<emitVars, digitVars, fade, rendererVars, now, mounted, lessonVars, modeVars, pointers, contacts, lastToneAt,
                 audioVars, ritualVars, ixVars, playVars, configVars, paintVars>>

(***************************************************************************)
(* Interaction counting                                                    *)
(***************************************************************************)
IxState ==
  [last |-> lastInteractionMsRef, session |-> sessionInteractionRef,
   lesson |-> lessonInteractionRef, dna |-> dnaInteractions]

SetIx(s) ==
  /\ lastInteractionMsRef' = s.last
  /\ sessionInteractionRef' = s.session
  /\ lessonInteractionRef' = s.lesson
  /\ dnaInteractions' = s.dna

trackLessonInteraction_EveryTick(s) ==
  IF ~lessonContext THEN s
  ELSE [s EXCEPT !.lesson = @ + 1, !.dna = @ + 1]

trackLessonInteraction(s) ==
  IF ~lessonContext THEN s
  ELSE LET n == s.lesson + 1
       IN [s EXCEPT !.lesson = n,
                    !.dna = IF n % 5 = 0 THEN @ + 1 ELSE @]

registerInteraction_NoThrottle(s, force) ==
  trackLessonInteraction([s EXCEPT !.last = now, !.session = @ + 1])

registerInteraction(s, force) ==
  IF ~force /\ now - s.last < Ms(INTERACTION_THROTTLE_MS) THEN s
  ELSE trackLessonInteraction([s EXCEPT !.last = now, !.session = @ + 1])

\* Room for n more counted interactions within the model's bound.
CanCount(n) == sessionInteractionRef + n <= MaxInteractions

(***************************************************************************)
(* Ritual progress: values derived during render                           *)
(***************************************************************************)
ReflectionChars == Len(Trim(asmmrReflection))

asmmrGoals ==
  <<[id |-> "ripple",  current |-> asmmrRitual.rippleBursts,
     target |-> ASMMR_TARGETS.rippleBursts],
    [id |-> "tone",    current |-> asmmrRitual.toneBursts,
     target |-> ASMMR_TARGETS.toneBursts],
    [id |-> "glide",   current |-> asmmrRitual.longestGlideMs,
     target |-> ASMMR_TARGETS.glideMs],
    [id |-> "reflect", current |-> ReflectionChars,
     target |-> ASMMR_TARGETS.reflectionChars]>>

asmmrRitualReady ==
  LET goals == asmmrGoals
  IN \A i \in DOMAIN goals : goals[i].current >= goals[i].target

RECURSIVE Gcd(_, _)
Gcd(a, b) == IF b = 0 THEN a ELSE Gcd(b, a % b)

Lcm(a, b) == (a * b) \div Gcd(a, b)

\* The four ratios are added exactly, as fractions over FocusDen.
FocusDen ==
  Lcm(Lcm(ASMMR_TARGETS.rippleBursts, ASMMR_TARGETS.toneBursts),
      Lcm(ASMMR_TARGETS.glideMs, ASMMR_TARGETS.reflectionChars))

FocusPart_Uncapped(current, target) == current * 25 * (FocusDen \div target)

\* (Math.min(current, target) / target) * 25, in units of 1/FocusDen.
FocusPart(current, target) == Min2(current, target) * 25 * (FocusDen \div target)

\* Math.round of n/FocusDen for n >= 0: halves round up.
RoundOverDen(n) == (2 * n + FocusDen) \div (2 * FocusDen)

FocusScoreOf(ripple, tone, glide, chars) ==
  clamp(RoundOverDen(FocusPart(ripple, ASMMR_TARGETS.rippleBursts)
                     + FocusPart(tone, ASMMR_TARGETS.toneBursts)
                     + FocusPart(glide, ASMMR_TARGETS.glideMs)
                     + FocusPart(chars, ASMMR_TARGETS.reflectionChars)),
        0, 100)

asmmrFocusScore ==
  FocusScoreOf(asmmrRitual.rippleBursts, asmmrRitual.toneBursts,
               asmmrRitual.longestGlideMs, ReflectionChars)

(***************************************************************************)
(* Ritual progress: state updates                                          *)
(***************************************************************************)
recordAsmmrRipple(p) == [p EXCEPT !.rippleBursts = @ + 1]

recordAsmmrTone_DecaysRipple(p) ==
  [p EXCEPT !.toneBursts = @ + 1, !.rippleBursts = Max2(0, @ - 1)]

recordAsmmrTone(p) == [p EXCEPT !.toneBursts = @ + 1]

recordAsmmrGlide_Unrounded(p, durationMs) ==
  [p EXCEPT !.glideCount = @ + 1,
            !.longestGlideMs = Max2(@, durationMs \div TimeUnit)]

\* recordAsmmrGlide(durationMs): the duration is in the units of
\* performance.now(), the counter in whole milliseconds.
recordAsmmrGlide(p, durationMs) ==
  [p EXCEPT !.glideCount = @ + 1,
            !.longestGlideMs = Max2(@, RoundMs(durationMs))]

SealedRitual_KeepsTones(p) ==
  [p EXCEPT !.rippleBursts = 0, !.glideCount = 0, !.longestGlideMs = 0,
            !.completions = @ + 1]

SealedRitual(p) ==
  [p EXCEPT !.rippleBursts = 0, !.toneBursts = 0, !.glideCount = 0,
            !.longestGlideMs = 0, !.completions = @ + 1]

ResetRitual ==
  [rippleBursts |-> 0, toneBursts |-> 0, glideCount |-> 0, longestGlideMs |-> 0,
   completions |-> 0]

\* Room below the model's bound on the two event counters.
RippleRoom == asmmrRitual.rippleBursts < ASMMR_TARGETS.rippleBursts + MaxRippleOver

ToneRoom == asmmrRitual.toneBursts < ASMMR_TARGETS.toneBursts + MaxToneOver

ReflectionInputs ==
  {Spaces(MaxPad) \o Letters(n) \o Spaces(MaxPad) :
     n \in {0, ASMMR_TARGETS.reflectionChars - 1, ASMMR_TARGETS.reflectionChars}}
  \cup {Letters(ASMMR_TARGETS.reflectionChars - 2) \o Spaces(1) \o Letters(1)}

\* The textarea's onChange.
SetAsmmrReflection(text) ==
  /\ mounted /\ activeMode = "asmr"
  /\ asmmrReflection' = text
  /\ UNCHANGED <<emitVars, digitVars, fade, rendererVars, now, mounted, lessonVars, modeVars, pointers, contacts,
                 lastToneAt, audioVars, asmmrRitual, ixVars, playVars, configVars, surfaceVars,
                 paintVars>>

completeAsmmrRitual_Unguarded ==
  /\ mounted /\ activeMode = "asmr"
  /\ CanCount(1)
  /\ asmmrReflection' = <<>>
  /\ asmmrRitual' = SealedRitual(asmmrRitual)
  /\ SetIx(registerInteraction(IxState, TRUE))
  /\ UNCHANGED <<emitVars, digitVars, fade, rendererVars, now, mounted, lessonVars, modeVars, pointers, contacts,
                 lastToneAt, audioVars, playVars, configVars, surfaceVars, paintVars>>

completeAsmmrRitual ==
  /\ mounted /\ activeMode = "asmr"
  /\ IF ~asmmrRitualReady THEN UNCHANGED vars
     ELSE /\ CanCount(1)
          /\ asmmrReflection' = <<>>
          /\ asmmrRitual' = SealedRitual(asmmrRitual)
          /\ SetIx(registerInteraction(IxState, TRUE))
          /\ UNCHANGED <<emitVars, digitVars, fade, rendererVars, now, mounted, lessonVars, modeVars, pointers, contacts,
                         lastToneAt, audioVars, playVars, configVars, surfaceVars, paintVars>>

resetAsmmrRitual ==
  /\ mounted /\ activeMode = "asmr"
  /\ CanCount(1)
  /\ asmmrRitual' = ResetRitual
  /\ asmmrReflection' = <<>>
  /\ SetIx(registerInteraction(IxState, TRUE))
  /\ UNCHANGED <<emitVars, digitVars, fade, rendererVars, now, mounted, lessonVars, modeVars, pointers, contacts,
                 lastToneAt, audioVars, playVars, configVars, surfaceVars, paintVars>>

(***************************************************************************)
(* Audio activation and the continuations that wait for it                 *)
(***************************************************************************)
\* The parts of the state a continuation of ensureAudio() can write.
K ==
  [ritual |-> asmmrRitual, ix |-> IxState, playing |-> isPlaying,
   plays |-> playCount, timers |-> timers]

SetK(k) ==
  /\ asmmrRitual' = k.ritual
  /\ SetIx(k.ix)
  /\ isPlaying' = k.playing
  /\ playCount' = k.plays
  /\ timers' = k.timers

\* sequence.slice(0, 60).length * interval * 1000 with interval = 60 / tempo.
SequenceMs(bpm) == (60 * 60 * 1000) \div bpm

\* A continuation of the given kind, created by the current render: the
\* playSequence callback of a render holds that render's tempo.
Waiter(kind) == [kind |-> kind, tempo |-> tempo]

\* What runs once ensureAudio() has resolved.  React drops the state updates
\* of an unmounted component; refs and store calls are not affected.
RunContinuation(w, k) ==
  CASE w.kind = "asmrTone" ->
         IF mounted THEN [k EXCEPT !.ritual = recordAsmmrTone(@)] ELSE k
    [] w.kind = "playDigit" ->
         [k EXCEPT !.ix = registerInteraction(@, FALSE)]
    [] w.kind = "playSequence" ->
         [k EXCEPT !.playing = IF mounted THEN TRUE ELSE @,
                   !.plays = IF mounted THEN @ + 1 ELSE @,
                   !.timers = Append(@, now + Ms(SequenceMs(w.tempo))),
                   !.ix = registerInteraction(@, TRUE)]
    [] OTHER -> k

RECURSIVE RunWaiters(_, _)
RunWaiters(ws, k) ==
  IF ws = <<>> THEN k
  ELSE RunWaiters(Tail(ws), RunContinuation(Head(ws), k))

\* ensureAudio() called by a handler whose continuation is of the given kind:
\* with the context running the continuation runs right after the handler,
\* otherwise it waits for Tone.start().
ensureAudio(kind) ==
  IF audioRunning
  THEN /\ audioInitializedRef' = TRUE
       /\ UNCHANGED <<audioRunning, audioWaiters>>
  ELSE /\ Len(audioWaiters) < MaxWaiters
       /\ audioWaiters' = Append(audioWaiters, Waiter(kind))
       /\ UNCHANGED <<audioRunning, audioInitializedRef>>

AfterAudio(kind, k) ==
  IF audioRunning THEN RunContinuation(Waiter(kind), k) ELSE k

\* Tone.start() resolves: the waiting continuations run in the order of their calls.
AudioStarted ==
  /\ ~audioRunning
  /\ audioWaiters # <<>>
  /\ audioRunning' = TRUE
  /\ audioInitializedRef' = TRUE
  /\ audioWaiters' = <<>>
  /\ SetK(RunWaiters(audioWaiters, K))
  /\ UNCHANGED <<emitVars, digitVars, fade, rendererVars, now, mounted, lessonVars, modeVars, pointers, contacts,
                 lastToneAt, asmmrReflection, configVars, surfaceVars, paintVars>>

\* A tone bar of the sound mode: playDigit(digit).
playDigit ==
  /\ mounted /\ activeMode = "sound"
  /\ CanCount(1)
  /\ ensureAudio("playDigit")
  /\ SetK(AfterAudio("playDigit", K))
  /\ UNCHANGED <<emitVars, digitVars, fade, rendererVars, now, mounted, lessonVars, modeVars, pointers, contacts,
                 lastToneAt, asmmrReflection, configVars, surfaceVars, paintVars>>

\* A play button (sound mode and bottom bar), disabled while isPlaying.
playSequence ==
  /\ mounted /\ ~isPlaying
  /\ CanCount(1)
  /\ ensureAudio("playSequence")
  /\ SetK(AfterAudio("playSequence", K))
  /\ UNCHANGED <<emitVars, digitVars, fade, rendererVars, now, mounted, lessonVars, modeVars, pointers, contacts,
                 lastToneAt, asmmrReflection, configVars, surfaceVars, paintVars>>

\* The setTimeout callback of playSequence, once due: setIsPlaying(false).
TimerFired ==
  /\ \E i \in DOMAIN timers :
       /\ timers[i] <= now
       /\ timers' = SubSeq(timers, 1, i - 1) \o SubSeq(timers, i + 1, Len(timers))
  /\ isPlaying' = IF mounted THEN FALSE ELSE isPlaying
  /\ UNCHANGED <<emitVars, digitVars, fade, rendererVars, now, mounted, lessonVars, modeVars, pointers, contacts,
                 lastToneAt, audioVars, ritualVars, ixVars, playCount, configVars,
                 surfaceVars, paintVars>>

\* The tempo slider of the journey.
SetTempo(bpm) ==
  /\ mounted /\ activeMode = "journey"
  /\ bpm # tempo
  /\ tempo' = bpm
  /\ UNCHANGED <<emitVars, digitVars, fade, rendererVars, now, mounted, lessonVars, modeVars, pointers, contacts,
                 lastToneAt, audioVars, ritualVars, ixVars, playVars, harmony,
                 selectedSeed, consciousness, surfaceVars, paintVars>>

\* The Clear Pattern button of the mandala mode.
clearPaintedPattern ==
  /\ mounted /\ activeMode = "mandala"
  /\ CanCount(1)
  /\ paintedPatternRef' = <<>>
  /\ paintedPattern' = <<>>
  /\ SetIx(registerInteraction(IxState, TRUE))
  /\ UNCHANGED <<emitVars, digitVars, fade, rendererVars, now, mounted, lessonVars, modeVars, pointers, contacts,
                 lastToneAt, audioVars, ritualVars, playVars, configVars, surfaceVars>>

(***************************************************************************)
(* Ritual Flow renderer (asmr): pointer handlers                           *)
(***************************************************************************)
ASMR_EMIT_MS == 66

ASMR_TONE_MS == 92

ASMR_GLIDE_MIN_MS == 420

\* Alpha values are in thousandths.  The arrays of an effect that has been
\* set up, empty; followed tells whether the behaviour keeps them.
FadeStart(followed) ==
  [followed |-> followed, ripples |-> [m \in {"particles", "asmr"} |-> <<>>],
   sparks |-> <<>>]

\* emitRipple(x, y, intense, countForRitual): the push; the count is the caller's.
emitRipple(f, intense) ==
  IF f.followed
  THEN [f EXCEPT !.ripples["asmr"] = Append(@, IF intense THEN 880 ELSE 650)]
  ELSE f

\* emitSparks(x, y, count)
emitSparks(f, count) ==
  IF f.followed THEN [f EXCEPT !.sparks = @ \o [i \in 1..count |-> 850]] ELSE f

\* spawnRipple(x, y, digit, intensity) of the particle field.
spawnRipple(f) ==
  IF f.followed THEN [f EXCEPT !.ripples["particles"] = Append(@, 820)] ELSE f

Faded_KeepsThreshold(list, step, threshold) ==
  LET lower == [i \in DOMAIN list |-> list[i] - step]
      Kept(a) == a >= threshold
  IN SelectSeq(lower, Kept)

\* One pass of a frame callback over an array: alpha -= step, and the entry
\* is spliced out if alpha <= threshold.
Faded(list, step, threshold) ==
  LET lower == [i \in DOMAIN list |-> list[i] - step]
      Kept(a) == a > threshold
  IN SelectSeq(lower, Kept)

\* The most ripples with which the asmr callback adds an ambient one.
ASMR_AMBIENT_BELOW == 20

\* The arrays after a frame callback of the given 2-D mode.
FadeFrame(f, m, lucky) ==
  IF ~f.followed THEN f
  ELSE IF m = "particles"
  THEN [f EXCEPT !.ripples["particles"] = Faded(@, 16, 20)]
  ELSE IF m = "asmr"
  THEN LET ripples == Faded(f.ripples["asmr"], 13, 20)
           ambient == /\ DOMAIN pointers["asmr"] = {}
                      /\ lucky
                      /\ Len(ripples) < ASMR_AMBIENT_BELOW
       IN [f EXCEPT !.ripples["asmr"] = IF ambient THEN Append(ripples, 650) ELSE ripples,
                    !.sparks = Faded(@, 18, 30)]
  ELSE f

CanvasLive(m, type) == mounted /\ activeMode = m /\ type \in listeners[m]

AsmrOnDown(id, pt) ==
  /\ CanvasLive("asmr", "pointerdown")
  /\ id \notin contacts
  /\ CanCount(1) /\ RippleRoom /\ ToneRoom
  /\ pointers' = [pointers EXCEPT !["asmr"] =
       MapSet(@, id, [x |-> pt.x, y |-> pt.y, lastEmit |-> now, startAt |-> now])]
  /\ contacts' = contacts \cup {id}
  /\ ensureAudio("asmrTone")
  /\ SetK(AfterAudio("asmrTone",
            [K EXCEPT !.ritual = recordAsmmrRipple(@),
                      !.ix = registerInteraction(@, TRUE)]))
  /\ lastSessionEmitAt' = MapSet(lastSessionEmitAt, id, now)
  /\ fade' = emitSparks(emitRipple(fade, TRUE), 12)
  /\ UNCHANGED <<lastMoveToneAt, digitVars, rendererVars, now, mounted, lessonVars, modeVars, lastToneAt,
                 asmmrReflection, configVars, surfaceVars, paintVars>>

AsmrOnMove(id, pt) ==
  /\ CanvasLive("asmr", "pointermove")
  /\ IF id \notin DOMAIN pointers["asmr"] THEN UNCHANGED vars
     ELSE LET state == pointers["asmr"][id]
              moved == [state EXCEPT !.x = pt.x, !.y = pt.y]
              tone  == now - lastToneAt["asmr"] > Ms(ASMR_TONE_MS)
          IN IF now - state.lastEmit < Ms(ASMR_EMIT_MS)
             THEN /\ pointers' = [pointers EXCEPT !["asmr"] = MapSet(@, id, moved)]
                  /\ UNCHANGED <<emitVars, digitVars, fade, rendererVars, now, mounted, lessonVars, modeVars, contacts,
                                 lastToneAt, audioVars, ritualVars, ixVars, playVars,
                                 configVars, surfaceVars, paintVars>>
             ELSE /\ CanCount(1) /\ RippleRoom /\ (tone => ToneRoom)
                  /\ pointers' = [pointers EXCEPT !["asmr"] =
                       MapSet(@, id, [moved EXCEPT !.lastEmit = now])]
                  /\ asmmrRitual' =
                       IF tone THEN recordAsmmrTone(recordAsmmrRipple(asmmrRitual))
                       ELSE recordAsmmrRipple(asmmrRitual)
                  /\ lastToneAt' = IF tone THEN [lastToneAt EXCEPT !["asmr"] = now]
                                   ELSE lastToneAt
                  /\ lastSessionEmitAt' = MapSet(lastSessionEmitAt, id, now)
                  /\ lastMoveToneAt' = IF tone THEN <<now>> ELSE lastMoveToneAt
                  /\ SetIx(registerInteraction(IxState, FALSE))
                  /\ fade' = emitSparks(emitRipple(fade, FALSE), 3)
                  /\ UNCHANGED <<digitVars, rendererVars, now, mounted, lessonVars, modeVars, contacts,
                                 audioVars, asmmrReflection, playVars, configVars, surfaceVars,
                                 paintVars>>

\* pointerup and pointercancel share the handler.
AsmrOnUp(id) ==
  /\ CanvasLive("asmr", "pointerup")
  /\ RippleRoom
  /\ LET rippled == recordAsmmrRipple(asmmrRitual)
     IN asmmrRitual' =
          IF id \in DOMAIN pointers["asmr"]
             /\ now - pointers["asmr"][id].startAt >= Ms(ASMR_GLIDE_MIN_MS)
          THEN recordAsmmrGlide(rippled, now - pointers["asmr"][id].startAt)
          ELSE rippled
  /\ pointers' = [pointers EXCEPT !["asmr"] = MapDelete(@, id)]
  /\ contacts' = contacts \ {id}
  /\ fade' = emitSparks(emitRipple(fade, TRUE), 8)
  /\ UNCHANGED <<emitVars, digitVars, rendererVars, now, mounted, lessonVars, modeVars, lastToneAt, audioVars,
                 asmmrReflection, ixVars, playVars, configVars, surfaceVars, paintVars>>

(***************************************************************************)
(* Helix renderer (spiral): pointer handlers                               *)
(***************************************************************************)
SPIRAL_TONE_MS == 85

\* probeSpheres(): hit tells whether the ray meets a sphere that has a digit.
\* Yields the effect's lastToneAt and the interaction refs.
probeSpheres(hit, s) ==
  IF hit /\ now - lastToneAt["spiral"] > Ms(SPIRAL_TONE_MS)
  THEN [tone |-> now, ix |-> registerInteraction(s, FALSE)]
  ELSE [tone |-> lastToneAt["spiral"], ix |-> s]

\* camera.position.z, in hundredths: its start and the range of the clamps.
CAMERA_START == 2200
CAMERA_NEAR == 800
CAMERA_FAR == 3800

\* The range of targetRotX, in thousandths of a radian.
ROT_X_LIMIT == 1200

\* The effect's locals at setup: pinchDist in pixels, the target rotations in
\* thousandths of a radian.  The camera and the rotation targets only feed the
\* drawing; they are followed where the flag is set and rest at their start
\* elsewhere.
HelixStart(followed) ==
  [followed |-> followed, cameraZ |-> CAMERA_START, pinchDist |-> 0,
   targetRotX |-> 0, targetRotY |-> 0]

RECURSIVE SqrtBetween(_, _, _)
SqrtBetween(n, lo, hi) ==
  IF lo = hi THEN lo
  ELSE LET mid == (lo + hi + 1) \div 2
       IN IF mid * mid <= n THEN SqrtBetween(n, mid, hi)
          ELSE SqrtBetween(n, lo, mid - 1)

\* Math.hypot(dx, dy), to the whole pixel below.
Hypot(dx, dy) ==
  LET ax == IF dx < 0 THEN -dx ELSE dx
      ay == IF dy < 0 THEN -dy ELSE dy
  IN SqrtBetween(dx * dx + dy * dy, Max2(ax, ay), ax + ay)

\* The distance of the two sessions of a Map of size two.
PinchDistance(map) ==
  LET a == CHOOSE i \in DOMAIN map : TRUE
      b == CHOOSE j \in DOMAIN map : j # a
  IN Hypot(map[a].x - map[b].x, map[a].y - map[b].y)

\* updatePinch() with the given pointers Map: (d - pinchDist) * 0.03 is
\* (d - pinchDist) * 3 hundredths.
updatePinch(map, h) ==
  IF ~h.followed THEN h
  ELSE IF Cardinality(DOMAIN map) # 2 THEN [h EXCEPT !.pinchDist = 0]
  ELSE LET d == PinchDistance(map)
       IN [h EXCEPT !.cameraZ = IF h.pinchDist > 0
                                THEN clamp(@ - (d - h.pinchDist) * 3, CAMERA_NEAR, CAMERA_FAR)
                                ELSE @,
                    !.pinchDist = d]

\* How the session count became two by an event of the given kind, kept until
\* a session moves.
BecameTwo(kind, before, after, moved) ==
  IF ~helix.followed \/ Cardinality(DOMAIN after) # 2 THEN "none"
  ELSE IF Cardinality(DOMAIN before) # 2 THEN kind
  ELSE IF moved THEN "none"
  ELSE becameTwo

SpiralOnDown(id, pt, hit) ==
  /\ CanvasLive("spiral", "pointerdown")
  /\ id \notin contacts
  /\ CanCount(2)
  /\ pointers' = [pointers EXCEPT !["spiral"] =
       MapSet(@, id, [x |-> pt.x, y |-> pt.y])]
  /\ contacts' = contacts \cup {id}
  /\ ensureAudio("none")
  /\ LET probed == probeSpheres(hit, IxState)
     IN /\ lastToneAt' = [lastToneAt EXCEPT !["spiral"] = probed.tone]
        /\ SetIx(registerInteraction(probed.ix, TRUE))
  /\ becameTwo' = BecameTwo("down", pointers["spiral"], pointers'["spiral"], FALSE)
  /\ UNCHANGED <<emitVars, digitVars, fade, helix, now, mounted, lessonVars, modeVars, ritualVars, playVars,
                 configVars, surfaceVars, paintVars>>

SpiralOnMove(id, pt, hit) ==
  /\ CanvasLive("spiral", "pointermove")
  /\ CanCount(1)
  /\ LET prev   == id \in DOMAIN pointers["spiral"]
         map    == IF prev THEN MapSet(pointers["spiral"], id, [x |-> pt.x, y |-> pt.y])
                   ELSE pointers["spiral"]
         rotate == prev /\ Cardinality(DOMAIN map) = 1
         ix     == IF rotate THEN registerInteraction(IxState, FALSE) ELSE IxState
         probed == probeSpheres(hit, ix)
         dx     == pt.x - pointers["spiral"][id].x
         dy     == pt.y - pointers["spiral"][id].y
         turned == IF rotate /\ helix.followed
                   THEN [helix EXCEPT !.targetRotY = @ + dx * 5,
                                      !.targetRotX = clamp(@ + dy * 3, -ROT_X_LIMIT, ROT_X_LIMIT)]
                   ELSE helix
     IN /\ pointers' = [pointers EXCEPT !["spiral"] = map]
        /\ lastToneAt' = [lastToneAt EXCEPT !["spiral"] = probed.tone]
        /\ SetIx(probed.ix)
        /\ helix' = IF prev THEN updatePinch(map, turned) ELSE helix
        /\ becameTwo' = BecameTwo("move", pointers["spiral"], map, prev)
  /\ UNCHANGED <<emitVars, digitVars, fade, now, mounted, lessonVars, modeVars, contacts, audioVars,
                 ritualVars, playVars, configVars, surfaceVars, paintVars>>

SpiralOnUp_ClearsAll(id) ==
  /\ CanvasLive("spiral", "pointerup")
  /\ pointers' = [pointers EXCEPT !["spiral"] = EmptyMap]
  /\ contacts' = contacts \ {id}
  /\ helix' = updatePinch(pointers'["spiral"], helix)
  /\ becameTwo' = BecameTwo("up", pointers["spiral"], pointers'["spiral"], FALSE)
  /\ UNCHANGED <<emitVars, digitVars, fade, now, mounted, lessonVars, modeVars, lastToneAt, audioVars,
                 ritualVars, ixVars, playVars, configVars, surfaceVars, paintVars>>

\* pointerup and pointercancel share the handler.
SpiralOnUp(id) ==
  /\ CanvasLive("spiral", "pointerup")
  /\ pointers' = [pointers EXCEPT !["spiral"] = MapDelete(@, id)]
  /\ contacts' = contacts \ {id}
  /\ helix' = updatePinch(pointers'["spiral"], helix)
  /\ becameTwo' = BecameTwo("up", pointers["spiral"], pointers'["spiral"], FALSE)
  /\ UNCHANGED <<emitVars, digitVars, fade, now, mounted, lessonVars, modeVars, lastToneAt, audioVars,
                 ritualVars, ixVars, playVars, configVars, surfaceVars, paintVars>>

\* The wheel listener: e.deltaY * 0.01 is deltaY hundredths.
SpiralOnWheel(deltaY) ==
  /\ CanvasLive("spiral", "wheel")
  /\ helix' = IF helix.followed
              THEN [helix EXCEPT !.cameraZ = clamp(@ + deltaY, CAMERA_NEAR, CAMERA_FAR)]
              ELSE helix
  /\ UNCHANGED <<emitVars, digitVars, fade, becameTwo, now, mounted, lessonVars, modeVars, pointers,
                 contacts, lastToneAt, audioVars, ritualVars, ixVars, playVars, configVars,
                 surfaceVars, paintVars>>

(***************************************************************************)
(* Mandala renderer: pointer handlers                                      *)
(***************************************************************************)
MANDALA_TONE_MS == 95

\* The harmony buttons of the journey.
HarmonyCounts == {3, 5, 7, 9, 12}

\* Angles are whole numbers of 1/2520 of a turn: every eighth of a turn and
\* every step 2*pi/harmony is such a number.
FullTurn == 2520

\* Math.atan2(dy, dx), within (-pi, pi], for the eight directions of the
\* compass and for the origin.
Atan2(dy, dx) ==
  CASE dx = 0 /\ dy = 0 -> 0
    [] dy = 0 /\ dx > 0 -> 0
    [] dy = dx /\ dx > 0 -> FullTurn \div 8
    [] dx = 0 /\ dy > 0 -> FullTurn \div 4
    [] dy = -dx /\ dx < 0 -> 3 * (FullTurn \div 8)
    [] dy = 0 /\ dx < 0 -> FullTurn \div 2
    [] dy = dx /\ dx < 0 -> -(3 * (FullTurn \div 8))
    [] dx = 0 /\ dy < 0 -> -(FullTurn \div 4)
    [] dy = -dx /\ dx > 0 -> -(FullTurn \div 8)

\* The point { x: cx + Math.cos(a) * dist, y: cy + Math.sin(a) * dist }, kept
\* by what determines it: twice the centre, four times the squared distance
\* and the angle within one turn (any angle is the same point at distance 0).
PolarPoint(cx2, cy2, dist4, a) ==
  [cx |-> cx2, cy |-> cy2, dist |-> dist4,
   angle |-> IF dist4 = 0 THEN 0 ELSE a % FullTurn]

SymmetricPoints_HalfCircle(pt) ==
  LET W     == surface["mandala"].W
      H     == surface["mandala"].H
      dx    == 2 * pt.x - W
      dy    == 2 * pt.y - H
      base  == Atan2(dy, dx)
      step  == FullTurn \div (2 * harmony)
  IN [i \in 1..harmony |->
        PolarPoint(W, H, dx * dx + dy * dy, base + step * (i - 1))]

\* The points addSymmetricPaint(x, y) pushes: the input point rotated about
\* the centre (W/2, H/2) by i steps of 2*pi/harmony, for i = 0 .. harmony-1.
\* dx and dy are twice the code's.
SymmetricPoints(pt) ==
  LET W     == surface["mandala"].W
      H     == surface["mandala"].H
      dx    == 2 * pt.x - W
      dy    == 2 * pt.y - H
      base  == Atan2(dy, dx)
      step  == FullTurn \div harmony
  IN [i \in 1..harmony |->
        PolarPoint(W, H, dx * dx + dy * dy, base + step * (i - 1))]

Spliced_DropsNewest(pattern) ==
  IF Len(pattern) > MAX_PAINT_POINTS
  THEN SubSeq(pattern, 1, MAX_PAINT_POINTS)
  ELSE pattern

\* splice(0, length - MAX_PAINT_POINTS) when the pattern is over the limit.
Spliced(pattern) ==
  IF Len(pattern) > MAX_PAINT_POINTS
  THEN SubSeq(pattern, Len(pattern) - MAX_PAINT_POINTS + 1, Len(pattern))
  ELSE pattern

\* Room for one more stroke within the model's bound on the pattern.
PaintRoom == Len(paintedPatternRef) + harmony <= MaxPaint

\* addSymmetricPaint(x, y): yields the pattern, lastToneAt and the refs.  The
\* effect of line 432 makes paintedPatternRef.current the state's array
\* itself, so the push and the splice change paintedPattern in place too.
addSymmetricPaint(pt, s) ==
  [pattern |-> Spliced(paintedPatternRef \o SymmetricPoints(pt)),
   tone    |-> IF now - lastToneAt["mandala"] > Ms(MANDALA_TONE_MS) THEN now
               ELSE lastToneAt["mandala"],
   ix      |-> registerInteraction(s, FALSE)]

MandalaOnDown(id, pt) ==
  /\ CanvasLive("mandala", "pointerdown")
  /\ id \notin contacts
  /\ CanCount(2)
  /\ pointers' = [pointers EXCEPT !["mandala"] =
       MapSet(@, id, [x |-> pt.x, y |-> pt.y, drawing |-> TRUE])]
  /\ contacts' = contacts \cup {id}
  /\ ensureAudio("none")
  /\ LET painted == addSymmetricPaint(pt, IxState)
     IN /\ paintedPatternRef' = painted.pattern
        /\ paintedPattern' = paintedPatternRef'
        /\ lastToneAt' = [lastToneAt EXCEPT !["mandala"] = painted.tone]
        /\ SetIx(registerInteraction(painted.ix, TRUE))
  /\ UNCHANGED <<emitVars, digitVars, fade, rendererVars, now, mounted, lessonVars, modeVars, ritualVars, playVars,
                 configVars, surfaceVars>>

MandalaOnMove(id, pt) ==
  /\ CanvasLive("mandala", "pointermove")
  /\ IF id \notin DOMAIN pointers["mandala"] \/ ~pointers["mandala"][id].drawing
     THEN UNCHANGED vars
     ELSE /\ CanCount(1)
          /\ pointers' = [pointers EXCEPT !["mandala"] =
               MapSet(@, id, [x |-> pt.x, y |-> pt.y, drawing |-> TRUE])]
          /\ LET painted == addSymmetricPaint(pt, IxState)
             IN /\ paintedPatternRef' = painted.pattern
                /\ paintedPattern' = paintedPatternRef'
                /\ lastToneAt' = [lastToneAt EXCEPT !["mandala"] = painted.tone]
                /\ SetIx(painted.ix)
          /\ UNCHANGED <<emitVars, digitVars, fade, rendererVars, now, mounted, lessonVars, modeVars, contacts, audioVars,
                         ritualVars, playVars, configVars, surfaceVars>>

MandalaOnUp_StaleState(id) ==
  /\ CanvasLive("mandala", "pointerup")
  /\ pointers' = [pointers EXCEPT !["mandala"] = MapDelete(@, id)]
  /\ contacts' = contacts \ {id}
  /\ paintedPattern' = SubSeq(paintedPatternRef, 1, Len(paintedPatternRef) - harmony)
  /\ paintedPatternRef' = paintedPattern'
  /\ UNCHANGED <<emitVars, digitVars, fade, rendererVars, now, mounted, lessonVars, modeVars, lastToneAt, audioVars,
                 ritualVars, ixVars, playVars, configVars, surfaceVars>>

\* pointerup and pointercancel share the handler; the effect that follows the
\* state update points the ref at the new state array.
MandalaOnUp(id) ==
  /\ CanvasLive("mandala", "pointerup")
  /\ pointers' = [pointers EXCEPT !["mandala"] = MapDelete(@, id)]
  /\ contacts' = contacts \ {id}
  /\ paintedPattern' = paintedPatternRef
  /\ paintedPatternRef' = paintedPattern'
  /\ UNCHANGED <<emitVars, digitVars, fade, rendererVars, now, mounted, lessonVars, modeVars, lastToneAt, audioVars,
                 ritualVars, ixVars, playVars, configVars, surfaceVars>>

(***************************************************************************)
(* Particle field renderer: pointer handlers                               *)
(***************************************************************************)
\* e.pressure || fallback
PressureOr(pressure, fallback) == IF pressure = 0 THEN fallback ELSE pressure

ParticlesOnDown(id, pt, pressure) ==
  /\ CanvasLive("particles", "pointerdown")
  /\ id \notin contacts
  /\ CanCount(1)
  /\ pointers' = [pointers EXCEPT !["particles"] =
       MapSet(@, id, [x |-> pt.x, y |-> pt.y,
                      strength |-> Max2(30, PressureOr(pressure, 80))])]
  /\ contacts' = contacts \cup {id}
  /\ ensureAudio("none")
  /\ SetIx(registerInteraction(IxState, TRUE))
  /\ fade' = spawnRipple(fade)
  /\ UNCHANGED <<emitVars, digitVars, rendererVars, now, mounted, lessonVars, modeVars, lastToneAt, ritualVars,
                 playVars, configVars, surfaceVars, paintVars>>

ParticlesOnMove_AnyHover(id, pt, pressure) ==
  /\ CanvasLive("particles", "pointermove")
  /\ CanCount(1)
  /\ pointers' = [pointers EXCEPT !["particles"] =
       MapSet(@, id, [x |-> pt.x, y |-> pt.y,
                      strength |-> Max2(25, PressureOr(pressure, 60))])]
  /\ SetIx(registerInteraction(IxState, FALSE))
  /\ UNCHANGED <<emitVars, digitVars, fade, rendererVars, now, mounted, lessonVars, modeVars, contacts, lastToneAt,
                 audioVars, ritualVars, playVars, configVars, surfaceVars, paintVars>>

ParticlesOnMove(id, pt, pressure) ==
  /\ CanvasLive("particles", "pointermove")
  /\ LET hover == IF PointerType(id) = "mouse" /\ id \notin DOMAIN pointers["particles"]
                  THEN MapSet(pointers["particles"], id,
                              [x |-> pt.x, y |-> pt.y, strength |-> 45])
                  ELSE pointers["particles"]
     IN IF id \notin DOMAIN hover THEN UNCHANGED vars
        ELSE /\ CanCount(1)
             /\ pointers' = [pointers EXCEPT !["particles"] =
                  MapSet(hover, id, [x |-> pt.x, y |-> pt.y,
                                     strength |-> Max2(25, PressureOr(pressure, 60))])]
             /\ SetIx(registerInteraction(IxState, FALSE))
             /\ UNCHANGED <<emitVars, digitVars, fade, rendererVars, now, mounted, lessonVars, modeVars, contacts,
                            lastToneAt, audioVars, ritualVars, playVars, configVars, surfaceVars,
                            paintVars>>

\* pointerup and pointercancel share the handler.
ParticlesOnUp(id) ==
  /\ CanvasLive("particles", "pointerup")
  /\ pointers' = [pointers EXCEPT !["particles"] = MapDelete(@, id)]
  /\ contacts' = contacts \ {id}
  /\ fade' = spawnRipple(fade)
  /\ UNCHANGED <<emitVars, digitVars, rendererVars, now, mounted, lessonVars, modeVars, lastToneAt, audioVars,
                 ritualVars, ixVars, playVars, configVars, surfaceVars, paintVars>>

\* pointerleave; a pressed pointer is captured by the canvas and does not leave.
ParticlesOnLeave(id) ==
  /\ CanvasLive("particles", "pointerleave")
  /\ id \notin contacts
  /\ pointers' = [pointers EXCEPT !["particles"] =
       IF PointerType(id) = "mouse" THEN MapDelete(@, id) ELSE @]
  /\ UNCHANGED <<emitVars, digitVars, fade, rendererVars, now, mounted, lessonVars, modeVars, contacts, lastToneAt,
                 audioVars, ritualVars, ixVars, playVars, configVars, surfaceVars, paintVars>>

(***************************************************************************)
(* Mode effects: setup, animation frames, cleanup                          *)
(***************************************************************************)
ListenerTypes(m) ==
  CASE m = "spiral" ->
         {"pointerdown", "pointermove", "pointerup", "pointercancel", "wheel"}
    [] m = "particles" ->
         {"pointerdown", "pointermove", "pointerup", "pointercancel", "pointerleave"}
    [] OTHER -> {"pointerdown", "pointermove", "pointerup", "pointercancel"}

CancelFrame_Stale(frames, id) == frames

\* cancelAnimationFrame(id)
CancelFrame(frames, id) == {f \in frames : f.id # id}

\* The animId values the cleanups of the given modes cancel.
CancelFrames(frames, modes) ==
  {f \in frames : \A m \in modes : f \in CancelFrame(frames, animId[m])}

\* The removeEventListener calls of a cleanup.
RemovedListeners(m) == ListenerTypes(m)

\* Effect cleanups run for every effect that returned one, then the effect of
\* the mode m runs; it sets up only when its canvas and context exist.  The
\* Map and lastToneAt of a cleaned-up effect are locals of a closure nothing
\* calls any more; they are kept here as the empty Map and 0.
RunEffects(m, ok) ==
  LET cleaned == {k \in CanvasModes : effectLive[k]}
      setup   == m \in CanvasModes /\ ok
  IN /\ effectLive' = [k \in CanvasModes |-> k = m /\ setup]
     /\ listeners' = [k \in CanvasModes |->
          IF k = m /\ setup THEN ListenerTypes(m)
          ELSE IF k \in cleaned THEN listeners[k] \ RemovedListeners(k)
          ELSE listeners[k]]
     /\ observers' = [k \in CanvasModes |->
          IF k = m /\ setup THEN TRUE
          ELSE IF k \in cleaned THEN FALSE ELSE observers[k]]
     /\ rafQueue' = CancelFrames(rafQueue, cleaned)
          \cup (IF setup THEN {[id |-> nextRafId, mode |-> m]} ELSE {})
     /\ animId' = IF setup THEN [animId EXCEPT ![m] = nextRafId] ELSE animId
     /\ nextRafId' = IF setup THEN nextRafId + 1 ELSE nextRafId
     /\ pointers' = [k \in CanvasModes |->
          IF (k = m /\ setup) \/ k \in cleaned THEN EmptyMap ELSE pointers[k]]
     /\ lastToneAt' = [k \in CanvasModes |->
          IF (k = m /\ setup) \/ k \in cleaned THEN 0 ELSE lastToneAt[k]]
     /\ contacts' = {}
     /\ helix' = IF (m = "spiral" /\ setup) \/ "spiral" \in cleaned
                 THEN HelixStart(helix.followed) ELSE helix
     /\ becameTwo' = IF (m = "spiral" /\ setup) \/ "spiral" \in cleaned THEN "none" ELSE becameTwo
     /\ fade' = IF (m \in SurfaceModes /\ setup) \/ cleaned \cap SurfaceModes # {}
                THEN FadeStart(fade.followed) ELSE fade
     /\ LET element == IF m = activeMode THEN canvas ELSE FreshCanvas
            started == SurfaceSetup(m, element, ok)
        IN IF m \in SurfaceModes
           THEN /\ canvas' = started.canvas
                /\ surface' = [k \in SurfaceModes |->
                     IF k = m THEN started.surface ELSE NoSurface]
                /\ particleCount' = started.particles
           ELSE /\ canvas' = FreshCanvas
                /\ surface' = [k \in SurfaceModes |-> NoSurface]
                /\ UNCHANGED particleCount

SetActiveMode_DropsPattern(m, ctx) ==
  /\ mounted
  /\ m # activeMode
  /\ (m \in CanvasModes /\ (m = "spiral" \/ ctx)) => nextRafId < MaxRafId
  /\ activeMode' = m
  /\ visitedModes' = visitedModes \cup {m}
  /\ RunEffects(m, m = "spiral" \/ ctx)
  /\ paintedPatternRef' = <<>>
  /\ paintedPattern' = <<>>
  /\ UNCHANGED <<emitVars, digitVars, now, mounted, lessonVars, audioVars, ritualVars, ixVars,
                 playVars, configVars, envVars>>

\* A mode button: setActiveMode(m), the re-render and its effects.  ctx tells
\* whether getContext('2d') yields a context for a 2-D mode.
SetActiveMode(m, ctx) ==
  /\ mounted
  /\ m # activeMode
  /\ (m \in CanvasModes /\ (m = "spiral" \/ ctx)) => nextRafId < MaxRafId
  /\ activeMode' = m
  /\ visitedModes' = visitedModes \cup {m}
  /\ RunEffects(m, m = "spiral" \/ ctx)
  /\ UNCHANGED <<emitVars, digitVars, now, mounted, lessonVars, audioVars, ritualVars, ixVars,
                 playVars, configVars, envVars, paintVars>>

\* A seed button: the canvas effects depend on selectedSeed, so the active
\* renderer is cleaned up and set up again.
SetSelectedSeed(seed, ctx) ==
  /\ mounted
  /\ seed # selectedSeed
  /\ (activeMode \in CanvasModes /\ (activeMode = "spiral" \/ ctx)) =>
       nextRafId < MaxRafId
  /\ selectedSeed' = seed
  /\ RunEffects(activeMode, activeMode = "spiral" \/ ctx)
  /\ UNCHANGED <<emitVars, digitVars, now, mounted, lessonVars, activeMode, visitedModes, audioVars,
                 ritualVars, ixVars, playVars, tempo, harmony, consciousness,
                 envVars, paintVars>>

\* A consciousness slider (particles mode, journey, bottom bar): of the canvas
\* effects only the particles effect depends on consciousness, so it is
\* cleaned up and set up again when it is the active one.
SetConsciousness(value, ctx) ==
  /\ mounted
  /\ value # consciousness
  /\ consciousness' = value
  /\ IF activeMode = "particles"
     THEN /\ ctx => nextRafId < MaxRafId
          /\ RunEffects(activeMode, ctx)
     ELSE UNCHANGED <<effectLive, listeners, observers, rafQueue, animId, nextRafId,
                      pointers, lastToneAt, contacts, canvas, surface, particleCount,
                      rendererVars, fade>>
  /\ UNCHANGED <<emitVars, digitVars, now, mounted, lessonVars, activeMode, visitedModes, audioVars,
                 ritualVars, ixVars, playVars, tempo, harmony, selectedSeed,
                 envVars, paintVars>>

\* A harmony button of the journey: no renderer is live in that mode.
SetHarmony(num) ==
  /\ mounted /\ activeMode = "journey"
  /\ num # harmony
  /\ harmony' = num
  /\ UNCHANGED <<emitVars, digitVars, fade, rendererVars, now, mounted, lessonVars, modeVars, pointers, contacts, lastToneAt,
                 audioVars, ritualVars, ixVars, playVars, tempo, selectedSeed,
                 consciousness, surfaceVars, paintVars>>

\* The browser runs a pending frame callback: animate / draw requests the next
\* frame first and stores its handle in animId.
\* lucky is the outcome of Math.random() < 0.03 in the asmr callback.
animate(lucky) ==
  /\ \E f \in rafQueue :
       /\ rafQueue' = (rafQueue \ {f}) \cup {[id |-> nextRafId, mode |-> f.mode]}
       /\ animId' = [animId EXCEPT ![f.mode] = nextRafId]
       /\ fade' = IF f.mode \in SurfaceModes /\ effectLive[f.mode]
                  THEN FadeFrame(fade, f.mode, lucky) ELSE fade
  /\ nextRafId' = nextRafId + 1
  /\ UNCHANGED <<emitVars, digitVars, rendererVars, now, mounted, lessonVars, activeMode, visitedModes, effectLive,
                 listeners, observers, pointers, contacts, lastToneAt, audioVars,
                 ritualVars, ixVars, playVars, configVars, surfaceVars, paintVars>>

AnimationFrame ==
  /\ nextRafId < MaxRafId
  /\ \E lucky \in BOOLEAN : animate(lucky)

\* The host removes the hub: every cleanup runs, among them the lesson flush.
Unmount ==
  /\ mounted
  /\ mounted' = FALSE
  /\ LET cleaned == {k \in CanvasModes : effectLive[k]}
     IN /\ effectLive' = [k \in CanvasModes |-> FALSE]
        /\ listeners' = [k \in CanvasModes |->
             IF k \in cleaned THEN listeners[k] \ RemovedListeners(k)
             ELSE listeners[k]]
        /\ observers' = [k \in CanvasModes |->
             IF k \in cleaned THEN FALSE ELSE observers[k]]
        /\ rafQueue' = CancelFrames(rafQueue, cleaned)
        /\ pointers' = [k \in CanvasModes |->
             IF k \in cleaned THEN EmptyMap ELSE pointers[k]]
        /\ lastToneAt' = [k \in CanvasModes |->
             IF k \in cleaned THEN 0 ELSE lastToneAt[k]]
  /\ contacts' = {}
  /\ dnaInteractions' =
       IF lessonContext /\ lessonInteractionRef % 5 # 0
       THEN dnaInteractions + 1 ELSE dnaInteractions
  /\ UNCHANGED <<emitVars, digitVars, fade, rendererVars, now, lessonVars, activeMode, visitedModes, animId, nextRafId,
                 audioVars, ritualVars, lastInteractionMsRef,
                 sessionInteractionRef, lessonInteractionRef, playVars, configVars, surfaceVars,
                 paintVars>>

\* Room for d more units of time within the model's bound on the clock.
TimeRoom(d) == now + d <= Ms(MaxNow)

\* Time passes.
Tick(d) ==
  /\ now' = now + d
  /\ UNCHANGED <<emitVars, digitVars, fade, rendererVars, mounted, lessonVars, modeVars, pointers, contacts, lastToneAt,
                 audioVars, ritualVars, ixVars, playVars, configVars, surfaceVars, paintVars>>

(***************************************************************************)
(* Lesson flow: pre-prompt, Finish Lesson, post-prompt                     *)
(***************************************************************************)
\* The onClick of the pre-prompt modal's button.
AcknowledgePrePrompt ==
  /\ mounted /\ lessonContext /\ prePrompt /\ ~preAcknowledged
  /\ preAcknowledged' = TRUE
  /\ UNCHANGED <<emitVars, digitVars, fade, rendererVars, now, mounted, queue, lessonContext, prePrompt, postPrompt, showPostPrompt,
                 postResponse, storeCalls, modeVars, pointers, contacts, lastToneAt,
                 audioVars, ritualVars, ixVars, playVars, configVars, surfaceVars, paintVars>>

\* The store's completeLesson(lessonId, studentAlias), as a call.
completeLesson(calls) == Append(calls, [fn |-> "completeLesson", response |-> <<>>])

\* The store's recordPostResponse(lessonId, studentAlias, response), as a call.
recordPostResponse(calls, response) ==
  Append(calls, [fn |-> "recordPostResponse", response |-> response])

\* The onClick of the Finish Lesson button, rendered when lessonContext &&
\* preAcknowledged && !showPostPrompt.
FinishLesson ==
  /\ mounted /\ lessonContext /\ preAcknowledged /\ ~showPostPrompt
  /\ IF postPrompt
     THEN showPostPrompt' = TRUE /\ UNCHANGED storeCalls
     ELSE storeCalls' = completeLesson(storeCalls) /\ UNCHANGED showPostPrompt
  /\ UNCHANGED <<emitVars, digitVars, fade, rendererVars, now, mounted, queue, lessonContext, prePrompt, postPrompt, preAcknowledged,
                 postResponse, modeVars, pointers, contacts, lastToneAt, audioVars,
                 ritualVars, ixVars, playVars, configVars, surfaceVars, paintVars>>

\* The post-prompt modal is rendered.
PostPromptShown == mounted /\ showPostPrompt /\ lessonContext /\ postPrompt

\* The onChange of the post-prompt textarea.
SetPostResponse(text) ==
  /\ PostPromptShown
  /\ postResponse' = text
  /\ UNCHANGED <<emitVars, digitVars, fade, rendererVars, now, mounted, queue, lessonContext, prePrompt, postPrompt, preAcknowledged,
                 showPostPrompt, storeCalls, modeVars, pointers, contacts, lastToneAt,
                 audioVars, ritualVars, ixVars, playVars, configVars, surfaceVars, paintVars>>

\* The onClick of Submit & Complete.
SubmitPostPrompt ==
  /\ PostPromptShown
  /\ storeCalls' =
       completeLesson(IF Trim(postResponse) # <<>>
                      THEN recordPostResponse(storeCalls, Trim(postResponse))
                      ELSE storeCalls)
  /\ showPostPrompt' = FALSE
  /\ UNCHANGED <<emitVars, digitVars, fade, rendererVars, now, mounted, queue, lessonContext, prePrompt, postPrompt, preAcknowledged,
                 postResponse, modeVars, pointers, contacts, lastToneAt, audioVars,
                 ritualVars, ixVars, playVars, configVars, surfaceVars, paintVars>>

(***************************************************************************)
(* Initial state: the hub just mounted, the helix effect set up            *)
(***************************************************************************)
\* The lessonContext prop and the lesson flow's initial state.
InitLesson(ctx, pre, post) ==
  /\ lessonContext = ctx
  /\ prePrompt = pre
  /\ postPrompt = post
  /\ preAcknowledged = ~(ctx /\ pre)
  /\ showPostPrompt = FALSE
  /\ postResponse = <<>>
  /\ storeCalls = <<>>
  /\ queue = <<>>

NoLesson == InitLesson(FALSE, FALSE, FALSE)

\* A lesson, or none, without prompts.
PlainLesson == \E ctx \in BOOLEAN : InitLesson(ctx, FALSE, FALSE)

NoHelix == helix = HelixStart(FALSE) /\ becameTwo = "none"

InitHub ==
  /\ now = 0
  /\ mounted = TRUE
  /\ activeMode = "spiral"
  /\ visitedModes = {"spiral"}
  /\ effectLive = [k \in CanvasModes |-> k = "spiral"]
  /\ listeners = [k \in CanvasModes |->
       IF k = "spiral" THEN ListenerTypes(k) ELSE {}]
  /\ observers = [k \in CanvasModes |-> k = "spiral"]
  /\ animId = [k \in CanvasModes |-> IF k = "spiral" THEN 1 ELSE 0]
  /\ rafQueue = {[id |-> 1, mode |-> "spiral"]}
  /\ nextRafId = 2
  /\ pointers = [k \in CanvasModes |-> EmptyMap]
  /\ contacts = {}
  /\ lastToneAt = [k \in CanvasModes |-> 0]
  /\ audioRunning \in BOOLEAN
  /\ audioInitializedRef = FALSE
  /\ audioWaiters = <<>>
  /\ asmmrRitual = ResetRitual
  /\ asmmrReflection = <<>>
  /\ lastInteractionMsRef = 0
  /\ sessionInteractionRef = 0
  /\ lessonInteractionRef = 0
  /\ dnaInteractions = 0
  /\ isPlaying = FALSE
  /\ playCount = 0
  /\ timers = <<>>
  /\ tempo = 120
  /\ harmony = 7
  /\ selectedSeed = "red"
  /\ consciousness = 50
  /\ paintedPatternRef = <<>>
  /\ paintedPattern = <<>>
  /\ canvas = FreshCanvas
  /\ surface = [k \in SurfaceModes |-> NoSurface]
  /\ particleCount = 0

\* No digit helper has been called.
NoDigitCall == digit = 0 /\ note = "" /\ color = "" /\ asmrColor = ""

\* The ritual flow has emitted nothing.
NoEmit == lastMoveToneAt = <<>> /\ lastSessionEmitAt = EmptyMap

\* The ripples and sparks arrays are left out of the state: they are written
\* by the handlers and read by the frame callbacks' drawing only.
NoFade == fade = FadeStart(FALSE)

InitCommon == InitHub /\ NoDigitCall /\ NoEmit /\ NoFade /\ NoHelix

\* The window and the host element at mount.
InitEnv(cw, ih, ratio) ==
  /\ clientWidth = cw
  /\ innerHeight = ih
  /\ devicePixelRatio = ratio

DefaultEnv == InitEnv(1000, 1000, 100)

Init == InitCommon /\ DefaultEnv /\ PlainLesson

(***************************************************************************)
(* The ritual: the Ritual Flow renderer with its sidebar                   *)
(***************************************************************************)
RitualSteps == {Ms(ASMMR_TARGETS.glideMs)}

InitRitual == InitCommon /\ DefaultEnv /\ NoLesson /\ audioRunning = FALSE

NextRitual ==
  \/ \E m \in {"spiral", "asmr"} : SetActiveMode(m, TRUE)
  \/ AsmrOnDown(1, [x |-> 0, y |-> 0])
  \/ AsmrOnMove(1, [x |-> 0, y |-> 0])
  \/ AsmrOnUp(1)
  \/ AudioStarted
  \/ \E text \in ReflectionInputs : SetAsmmrReflection(text)
  \/ completeAsmmrRitual
  \/ resetAsmmrRitual
  \/ \E d \in RitualSteps : TimeRoom(d) /\ Tick(d)

SpecRitual == InitRitual /\ [][NextRitual]_vars

(***************************************************************************)
(* Properties of the ritual                                                *)
(***************************************************************************)
RitualCounters ==
  <<asmmrRitual.rippleBursts, asmmrRitual.toneBursts, asmmrRitual.longestGlideMs,
    ReflectionChars>>

SealStep == completeAsmmrRitual

ResetStep == resetAsmmrRitual

EditStep == \E text \in ReflectionInputs : SetAsmmrReflection(text)

\* C1: a seal takes effect only when all four counters meet their targets
\* (18 ripple bursts, 8 tone bursts, 2600 ms glide, 36 trimmed characters);
\* a seal attempt in any other state changes neither the counters, the
\* completion count, the reflection text nor the interaction counters.
C1_SealOnlyWhenReady ==
  [][/\ asmmrRitual'.completions > asmmrRitual.completions =>
          /\ asmmrRitual.rippleBursts >= 18
          /\ asmmrRitual.toneBursts >= 8
          /\ asmmrRitual.longestGlideMs >= 2600
          /\ Len(Trim(asmmrReflection)) >= 36
     /\ (SealStep /\ ~asmmrRitualReady) =>
          UNCHANGED <<asmmrRitual, asmmrReflection, ixVars>>
     /\ (SealStep /\ asmmrRitualReady) =>
          asmmrRitual'.completions = asmmrRitual.completions + 1]_vars

\* A seal has taken effect, new progress was made and the ritual is not ready:
\* a seal attempt here is one that is rejected.
C1_Witness ==
  /\ activeMode = "asmr"
  /\ asmmrRitual.completions = 1
  /\ asmmrRitual.rippleBursts > 0
  /\ Len(Trim(asmmrReflection)) >= 36
  /\ ~asmmrRitualReady

\* C2: a successful seal sets ripple bursts, tone bursts and longest glide to
\* 0, clears the reflection text and adds exactly 1 to the completion count;
\* the ritual is not ready right after it.
C2_SealResets ==
  [][(SealStep /\ asmmrRitualReady) =>
       /\ asmmrRitual'.rippleBursts = 0
       /\ asmmrRitual'.toneBursts = 0
       /\ asmmrRitual'.longestGlideMs = 0
       /\ asmmrReflection' = <<>>
       /\ asmmrRitual'.completions = asmmrRitual.completions + 1
       /\ ~asmmrRitualReady']_vars

C2_Witness ==
  /\ asmmrRitual.completions = 1
  /\ asmmrRitual.rippleBursts = 0
  /\ asmmrRitual.toneBursts = 0
  /\ asmmrRitual.longestGlideMs = 0
  /\ asmmrReflection = <<>>
  /\ sessionInteractionRef > 0

\* C3: the completion count never decreases.
C3_CompletionsMonotonic ==
  [][asmmrRitual'.completions >= asmmrRitual.completions]_vars

\* C4 as claimed: none of the four phase counters is ever lowered except by a
\* seal or a reset.
C4_CountersNeverLowered ==
  [][\/ SealStep
     \/ ResetStep
     \/ \A i \in 1..4 : RitualCounters'[i] >= RitualCounters[i]]_vars

\* C4 as amended: ripple bursts, tone bursts and longest glide are lowered only
\* by a seal or a reset, which set them to 0; the reflection text, and so its
\* length, is changed only by a seal, a reset or an edit of the text; a ready
\* ritual stays ready until it is sealed or reset or the text is edited.
C4_EventCountersNeverLowered ==
  [][/\ \/ /\ SealStep \/ ResetStep
           /\ asmmrRitual'.rippleBursts = 0
           /\ asmmrRitual'.toneBursts = 0
           /\ asmmrRitual'.longestGlideMs = 0
        \/ /\ asmmrRitual'.rippleBursts >= asmmrRitual.rippleBursts
           /\ asmmrRitual'.toneBursts >= asmmrRitual.toneBursts
           /\ asmmrRitual'.longestGlideMs >= asmmrRitual.longestGlideMs
     /\ \/ asmmrReflection' = asmmrReflection
        \/ SealStep \/ ResetStep \/ EditStep
     /\ \/ asmmrRitual' = asmmrRitual /\ asmmrReflection' = asmmrReflection
        \/ SealStep \/ ResetStep \/ EditStep
        \/ asmmrRitualReady => asmmrRitualReady']_vars

\* The ritual is ready with counters above their targets.
C4_Witness ==
  /\ asmmrRitualReady
  /\ asmmrRitual.rippleBursts > ASMMR_TARGETS.rippleBursts
  /\ asmmrRitual.toneBursts > ASMMR_TARGETS.toneBursts

\* 25 * min(counter, target) / target, in units of 1/FocusDen.
C5_Contribution(counter, target) ==
  (25 * FocusDen * (IF counter <= target THEN counter ELSE target)) \div target

C5_Sum ==
  C5_Contribution(asmmrRitual.rippleBursts, 18)
  + C5_Contribution(asmmrRitual.toneBursts, 8)
  + C5_Contribution(asmmrRitual.longestGlideMs, 2600)
  + C5_Contribution(Len(Trim(asmmrReflection)), 36)

\* C5: the focus score is within 0..100 and is the sum, rounded to the nearest
\* integer, of four contributions 25 * min(counter, target) / target, each
\* within 0..25; a counter above its target scores as the target does.
C5_FocusScore ==
  /\ asmmrFocusScore \in 0..100
  /\ \A i \in DOMAIN asmmrGoals :
       /\ FocusPart(asmmrGoals[i].current, asmmrGoals[i].target) >= 0
       /\ FocusPart(asmmrGoals[i].current, asmmrGoals[i].target) <= 25 * FocusDen
  /\ 2 * FocusDen * asmmrFocusScore <= 2 * C5_Sum + FocusDen
  /\ 2 * FocusDen * asmmrFocusScore > 2 * C5_Sum - FocusDen
  /\ asmmrFocusScore =
       FocusScoreOf(Min2(asmmrRitual.rippleBursts, 18), Min2(asmmrRitual.toneBursts, 8),
                    Min2(asmmrRitual.longestGlideMs, 2600),
                    Min2(Len(Trim(asmmrReflection)), 36))

\* Two counters are above their targets and the score is not full.
C5_Witness ==
  /\ asmmrRitual.rippleBursts > 18
  /\ asmmrRitual.toneBursts > 8
  /\ asmmrRitual.longestGlideMs = 0
  /\ Len(Trim(asmmrReflection)) = 35
  /\ asmmrFocusScore = 74

(***************************************************************************)
(* Mode switching: the life cycle of the four renderers                    *)
(***************************************************************************)
InitModes == InitCommon /\ DefaultEnv /\ PlainLesson

NextModes ==
  \/ \E m \in ModeKey, ctx \in BOOLEAN : SetActiveMode(m, ctx)
  \/ \E seed \in SeedKey, ctx \in BOOLEAN : SetSelectedSeed(seed, ctx)
  \/ AnimationFrame
  \/ Unmount

SpecModes == InitModes /\ [][NextModes]_vars

\* The renderers that hold a pending frame, a listener or a resize observer.
C6_Attached ==
  {m \in CanvasModes :
     \/ \E f \in rafQueue : f.mode = m
     \/ listeners[m] # {}
     \/ observers[m]}

C6_OnlyActiveAttached ==
  /\ C6_Attached \subseteq {activeMode}
  /\ ~mounted => C6_Attached = {}
  /\ Cardinality(rafQueue) <= 1

\* C6: at most one Mode Renderer has a scheduled animation frame, listeners or
\* resize observers, and it is the active mode's; after a mode switch nothing
\* of the previous mode is left attached when the next mode's are attached,
\* and every frame callback that runs belongs to the mode active at that time.
C6_OneRendererAtATime ==
  [][/\ C6_OnlyActiveAttached
     /\ C6_OnlyActiveAttached'
     /\ activeMode' # activeMode =>
          /\ \A f \in rafQueue' : f.mode = activeMode' /\ f \notin rafQueue
          /\ \A m \in CanvasModes \ {activeMode'} :
               listeners'[m] = {} /\ ~observers'[m]
     /\ AnimationFrame =>
          \A f \in rafQueue \ rafQueue' : mounted /\ f.mode = activeMode]_vars

\* Two renderers were set up and torn down and a third one is attached.
C6_Witness ==
  /\ activeMode \in CanvasModes
  /\ C6_Attached = {activeMode}
  /\ \E a, b \in CanvasModes \ {activeMode} :
       a # b /\ animId[a] > 0 /\ animId[b] > 0

(***************************************************************************)
(* Pointer sessions of the four renderers                                  *)
(***************************************************************************)
PointerSteps == {Ms(ASMMR_TARGETS.glideMs \div 2)}

InitPointers == InitCommon /\ DefaultEnv /\ NoLesson /\ audioRunning = TRUE

\* Room for one more pointer event within the model's bound on the counters
\* the pointer handlers raise.
PointerRoom == sessionInteractionRef + asmmrRitual.rippleBursts < MaxPointerEvents

NextPointers ==
  \/ \E m \in CanvasModes : SetActiveMode(m, TRUE)
  \/ \E seed \in SeedKey : SetSelectedSeed(seed, TRUE)
  \/ \E id \in PointerIds, pt \in Points, hit \in BOOLEAN :
       PointerRoom /\ SpiralOnDown(id, pt, hit)
  \/ \E id \in PointerIds, pt \in Points, hit \in BOOLEAN :
       PointerRoom /\ SpiralOnMove(id, pt, hit)
  \/ \E id \in PointerIds : SpiralOnUp(id)
  \/ \E id \in PointerIds, pt \in Points : PointerRoom /\ PaintRoom /\ MandalaOnDown(id, pt)
  \/ \E id \in PointerIds, pt \in Points : PointerRoom /\ PaintRoom /\ MandalaOnMove(id, pt)
  \/ \E id \in PointerIds : MandalaOnUp(id)
  \/ \E id \in PointerIds, pt \in Points, pressure \in PressureInputs :
       PointerRoom /\ ParticlesOnDown(id, pt, pressure)
  \/ \E id \in PointerIds, pt \in Points, pressure \in PressureInputs :
       PointerRoom /\ ParticlesOnMove(id, pt, pressure)
  \/ \E id \in PointerIds : ParticlesOnUp(id)
  \/ \E id \in PointerIds : ParticlesOnLeave(id)
  \/ \E id \in PointerIds, pt \in Points : PointerRoom /\ AsmrOnDown(id, pt)
  \/ \E id \in PointerIds, pt \in Points : PointerRoom /\ AsmrOnMove(id, pt)
  \/ \E id \in PointerIds : PointerRoom /\ AsmrOnUp(id)
  \/ \E d \in PointerSteps : TimeRoom(d) /\ Tick(d)

SpecPointers == InitPointers /\ [][NextPointers]_vars

MoveStep(m, id) ==
  CASE m = "spiral" ->
         \E pt \in Points, hit \in BOOLEAN : SpiralOnMove(id, pt, hit)
    [] m = "mandala" -> \E pt \in Points : MandalaOnMove(id, pt)
    [] m = "particles" ->
         \E pt \in Points, pressure \in PressureInputs :
           ParticlesOnMove(id, pt, pressure)
    [] OTHER -> \E pt \in Points : AsmrOnMove(id, pt)

UpStep(m, id) ==
  CASE m = "spiral" -> SpiralOnUp(id)
    [] m = "mandala" -> MandalaOnUp(id)
    [] m = "particles" -> ParticlesOnUp(id)
    [] OTHER -> AsmrOnUp(id)

Sessions(m) == DOMAIN pointers[m]

\* C7 as claimed: in every renderer a contact-move whose identifier has no
\* registered session creates no session and changes no existing session,
\* whatever the pointer type.
C7_UnmatchedMoveIgnored ==
  [][\A m \in CanvasModes, id \in PointerIds :
       (MoveStep(m, id) /\ id \notin Sessions(m)) => pointers' = pointers]_vars

\* C7 as amended: in the helix, mandala and ritual flow renderers a
\* contact-move whose identifier has no registered session creates no session
\* and changes no existing session; in the particle field this holds for
\* every pointer that is not a mouse, while a mouse move without a session
\* registers a session for the mouse at the event's position and changes no
\* other session.
C7_UnmatchedMoveIgnoredUnlessMouseOverParticles ==
  [][\A m \in CanvasModes, id \in PointerIds :
       (MoveStep(m, id) /\ id \notin Sessions(m)) =>
         IF m = "particles" /\ PointerType(id) = "mouse"
         THEN /\ Sessions(m)' = Sessions(m) \cup {id}
              /\ \E pt \in Points :
                   pointers'[m][id].x = pt.x /\ pointers'[m][id].y = pt.y
              /\ \A j \in Sessions(m) : pointers'[m][j] = pointers[m][j]
              /\ \A k \in CanvasModes \ {m} : pointers'[k] = pointers[k]
         ELSE pointers' = pointers]_vars

\* The mouse holds a session in the particle field without having been
\* pressed, next to a touch contact.
C7_Witness ==
  /\ activeMode = "particles"
  /\ 1 \in Sessions("particles") /\ 1 \notin contacts
  /\ 2 \in Sessions("particles") /\ 2 \in contacts

C8_ExactRemoval ==
  \A m \in CanvasModes, id \in PointerIds :
    UpStep(m, id) =>
      /\ Sessions(m)' = Sessions(m) \ {id}
      /\ \A j \in Sessions(m)' : pointers'[m][j] = pointers[m][j]
      /\ \A k \in CanvasModes \ {m} : pointers'[k] = pointers[k]

C8_CountIsContacts ==
  activeMode \in CanvasModes =>
    Cardinality(Sessions(activeMode)) = Cardinality(contacts)

C8_SessionsAreContactsOrHover ==
  activeMode \in CanvasModes =>
    IF activeMode = "particles"
    THEN /\ contacts \subseteq Sessions(activeMode)
         /\ \A id \in Sessions(activeMode) \ contacts : PointerType(id) = "mouse"
    ELSE Sessions(activeMode) = contacts

InteractionSteps == {Ms(INTERACTION_THROTTLE_MS - 1), Ms(INTERACTION_THROTTLE_MS)}

InitInteraction == InitCommon /\ DefaultEnv /\ PlainLesson

\* Room for one more handler that counts within the model's bound.
InteractionRoom == sessionInteractionRef < MaxInteractionCount

NextInteraction ==
  \/ \E m \in {"mandala", "sound", "asmr"} : SetActiveMode(m, TRUE)
  \/ \E hit \in BOOLEAN :
       InteractionRoom /\ SpiralOnDown(1, [x |-> 0, y |-> 0], hit)
  \/ \E hit \in BOOLEAN :
       InteractionRoom /\ SpiralOnMove(1, [x |-> 0, y |-> 0], hit)
  \/ SpiralOnUp(1)
  \/ InteractionRoom /\ PaintRoom /\ MandalaOnDown(1, [x |-> 0, y |-> 0])
  \/ InteractionRoom /\ PaintRoom /\ MandalaOnMove(1, [x |-> 0, y |-> 0])
  \/ MandalaOnUp(1)
  \/ InteractionRoom /\ clearPaintedPattern
  \/ InteractionRoom /\ resetAsmmrRitual
  \/ InteractionRoom /\ playDigit
  \/ InteractionRoom /\ playSequence
  \/ AudioStarted
  \/ Unmount
  \/ \E d \in InteractionSteps : now + d <= Ms(MaxInteractionNow) /\ Tick(d)

SpecInteraction == InitInteraction /\ [][NextInteraction]_vars

\* The steps of the handlers that call registerInteraction(true): the presses,
\* the seal, the reset, the clear and the play.
PressStep ==
  /\ contacts' # contacts
  /\ \/ \E id \in PointerIds, pt \in Points, hit \in BOOLEAN : SpiralOnDown(id, pt, hit)
     \/ \E id \in PointerIds, pt \in Points : MandalaOnDown(id, pt)
     \/ \E id \in PointerIds, pt \in Points, pressure \in PressureInputs :
          ParticlesOnDown(id, pt, pressure)
     \/ \E id \in PointerIds, pt \in Points : AsmrOnDown(id, pt)

RECURSIVE CountOf(_, _)
CountOf(kind, ws) ==
  IF ws = <<>> THEN 0
  ELSE (IF Head(ws).kind = kind THEN 1 ELSE 0) + CountOf(kind, Tail(ws))

\* The number of forced interactions the step makes.
ForcedCalls ==
  IF AudioStarted THEN CountOf("playSequence", audioWaiters)
  ELSE IF \/ PressStep
          \/ SealStep /\ asmmrRitualReady
          \/ ResetStep
          \/ clearPaintedPattern
          \/ playSequence /\ audioRunning
       THEN 1
       ELSE 0

Counted == sessionInteractionRef' - sessionInteractionRef

\* C9: every forced interaction (press, seal, reset, clear, play) is counted,
\* and an interaction that is not forced is counted only if at least 34 ms
\* have passed since the last counted one, which then becomes the last
\* counted one; a tap on a tone bar that is 34 ms or more after the last
\* counted interaction is counted.
C9_ThrottleUnlessForced ==
  [][/\ Counted >= ForcedCalls
     /\ Counted > ForcedCalls =>
          /\ Counted = ForcedCalls + 1
          /\ now - lastInteractionMsRef >= 34 * TimeUnit
     /\ Counted > 0 => lastInteractionMsRef' = now
     /\ (playDigit /\ audioRunning) =>
          (Counted = 1 <=> now - lastInteractionMsRef >= 34 * TimeUnit)]_vars

\* Two interactions were counted, the second a forced one 33 ms after the
\* first; 33 ms later a contact is held, whose moves are not counted.
C9_Witness ==
  /\ now = 66 * TimeUnit
  /\ lastInteractionMsRef = 33 * TimeUnit
  /\ sessionInteractionRef = 2
  /\ contacts = {1}

\* C10: without a lesson context incrementDnaInteraction is never called; with
\* one, every counted interaction is a tick, a tick that makes the tick count
\* a multiple of 5 calls it once and no other tick calls it, and the teardown
\* calls it once more exactly when the tick count is not a multiple of 5.
C10_EveryFifthTickAndFlush ==
  [][/\ ~lessonContext =>
          /\ dnaInteractions' = 0
          /\ lessonInteractionRef' = 0
     /\ lessonContext =>
          /\ lessonInteractionRef' - lessonInteractionRef = Counted
          /\ mounted' => dnaInteractions' = lessonInteractionRef' \div 5
          /\ Unmount =>
               dnaInteractions' - dnaInteractions =
                 IF lessonInteractionRef % 5 # 0 THEN 1 ELSE 0
          /\ ~Unmount =>
               dnaInteractions' - dnaInteractions =
                 (lessonInteractionRef' \div 5) - (lessonInteractionRef \div 5)
          /\ (Unmount /\ lessonInteractionRef = 0) => dnaInteractions' = 0]_vars

\* Seven ticks were counted in a lesson and the hub was torn down: one call
\* for the fifth tick and one for the two left over.
C10_Witness ==
  /\ lessonContext
  /\ ~mounted
  /\ lessonInteractionRef = 7
  /\ dnaInteractions = 2

(***************************************************************************)
(* The lesson flow                                                         *)
(***************************************************************************)
PostResponseInputs ==
  {<<>>, Spaces(MaxPad), Spaces(MaxPad) \o Letters(1) \o Spaces(MaxPad), Letters(2)}

InitLesson3 ==
  /\ InitCommon
  /\ DefaultEnv
  /\ \E ctx, pre, post \in BOOLEAN :
       /\ ctx \/ (~pre /\ ~post)
       /\ InitLesson(ctx, pre, post)

\* Room for one more submit within the model's bound on the store calls.
LessonRoom == Len(storeCalls) + 2 <= MaxStoreCalls

NextLesson ==
  \/ AcknowledgePrePrompt
  \/ LessonRoom /\ FinishLesson
  \/ \E text \in PostResponseInputs : SetPostResponse(text)
  \/ LessonRoom /\ SubmitPostPrompt
  \/ \E m \in {"spiral", "sound", "journey"} : SetActiveMode(m, TRUE)
  \/ Unmount

SpecLesson == InitLesson3 /\ [][NextLesson]_vars

\* The number of calls of the store function fn made so far.
CallsOf(fn) == Cardinality({i \in DOMAIN storeCalls : storeCalls[i].fn = fn})

\* C11: in one lesson session completeLesson is called at most once, and only
\* by a Finish Lesson or Submit & Complete click made after the pre-prompt was
\* acknowledged; a later use of the Finish Lesson control does not call it
\* again.
C11_CompleteLessonAtMostOnce ==
  [][/\ CallsOf("completeLesson")' <= 1
     /\ CallsOf("completeLesson")' > CallsOf("completeLesson") =>
          /\ preAcknowledged
          /\ FinishLesson \/ SubmitPostPrompt]_vars

\* C12: in one lesson session recordPostResponse is called at most once, only
\* by a submit whose text is non-empty after trimming, and right before that
\* submit's completeLesson call; a submit of an empty or whitespace-only text
\* calls completeLesson alone.
C12_RecordPostResponseAtMostOnce ==
  [][/\ CallsOf("recordPostResponse")' <= 1
     /\ SubmitPostPrompt =>
          storeCalls' =
            IF Trim(postResponse) # <<>>
            THEN storeCalls \o <<[fn |-> "recordPostResponse",
                                  response |-> Trim(postResponse)],
                                 [fn |-> "completeLesson", response |-> <<>>]>>
            ELSE Append(storeCalls, [fn |-> "completeLesson", response |-> <<>>])
     /\ CallsOf("recordPostResponse")' > CallsOf("recordPostResponse") =>
          SubmitPostPrompt /\ Trim(postResponse) # <<>>]_vars

(***************************************************************************)
(* Painting up to the limit of the pattern                                 *)
(***************************************************************************)
\* The pattern is filled with strokes at one point until it is within
\* MaxPaint points of the limit; from there on every input is drawn.
FillPoint == [x |-> 0, y |-> 0]

Filling == Len(paintedPatternRef) < MAX_PAINT_POINTS - MaxPaint

FullInputs == IF Filling THEN {FillPoint} ELSE Points

\* Past the filling, moves come at least a throttle interval apart and are
\* counted; room for one more within the model's bound.
FullRoom ==
  \/ Filling
  \/ /\ sessionInteractionRef < MaxFullCount
     /\ now - lastInteractionMsRef >= Ms(INTERACTION_THROTTLE_MS)

\* The pattern after n contact samples at FillPoint.
Strokes(n) ==
  [i \in 1..(n * harmony) |-> SymmetricPoints(FillPoint)[((i - 1) % harmony) + 1]]

\* The hub after the mandala was entered from the initial state and one
\* contact, pressed at FillPoint, has sent MaxFillStrokes samples there.
InitPaintFull ==
  /\ now = 0
  /\ mounted = TRUE
  /\ NoLesson /\ DefaultEnv /\ NoDigitCall /\ NoEmit /\ NoFade
  /\ activeMode = "mandala"
  /\ visitedModes = {"spiral", "mandala"}
  /\ effectLive = [k \in CanvasModes |-> k = "mandala"]
  /\ listeners = [k \in CanvasModes |->
       IF k = "mandala" THEN ListenerTypes(k) ELSE {}]
  /\ observers = [k \in CanvasModes |-> k = "mandala"]
  /\ animId = [k \in CanvasModes |->
       IF k = "spiral" THEN 1 ELSE IF k = "mandala" THEN 2 ELSE 0]
  /\ rafQueue = {[id |-> 2, mode |-> "mandala"]}
  /\ nextRafId = 3
  /\ pointers = [k \in CanvasModes |->
       IF k = "mandala"
       THEN MapSet(EmptyMap, 1, [x |-> FillPoint.x, y |-> FillPoint.y, drawing |-> TRUE])
       ELSE EmptyMap]
  /\ contacts = {1}
  /\ lastToneAt = [k \in CanvasModes |-> 0]
  /\ NoHelix
  /\ audioRunning = TRUE
  /\ audioInitializedRef = TRUE
  /\ audioWaiters = <<>>
  /\ asmmrRitual = ResetRitual
  /\ asmmrReflection = <<>>
  /\ lastInteractionMsRef = 0
  /\ sessionInteractionRef = 1
  /\ lessonInteractionRef = 0
  /\ dnaInteractions = 0
  /\ isPlaying = FALSE
  /\ playCount = 0
  /\ timers = <<>>
  /\ tempo = 120
  /\ harmony = 7
  /\ selectedSeed = "red"
  /\ consciousness = 50
  /\ LET r == Resized("mandala", FreshCanvas, clientWidth, innerHeight,
                      devicePixelRatio, 0)
     IN /\ canvas = r.canvas
        /\ surface = [k \in SurfaceModes |-> IF k = "mandala" THEN r.surface ELSE NoSurface]
        /\ particleCount = r.particles
  /\ paintedPatternRef = Strokes(MaxFillStrokes)
  /\ paintedPattern = paintedPatternRef

NextPaintFull ==
  \/ \E pt \in FullInputs : FullRoom /\ MandalaOnDown(1, pt)
  \/ \E pt \in FullInputs : FullRoom /\ MandalaOnMove(1, pt)
  \/ ~Filling /\ MandalaOnUp(1)
  \/ /\ ~Filling
     /\ now - lastInteractionMsRef < Ms(INTERACTION_THROTTLE_MS)
     /\ Tick(Ms(INTERACTION_THROTTLE_MS))

SpecPaintFull == InitPaintFull /\ [][NextPaintFull]_vars

\* A step of the mandala that paints: a contact-start, or a contact-move of a
\* drawing session.
PaintStep ==
  /\ activeMode = "mandala"
  /\ \/ contacts' # contacts /\ \E pt \in Points : MandalaOnDown(1, pt)
     \/ /\ 1 \in DOMAIN pointers["mandala"]
        /\ \E pt \in Points : MandalaOnMove(1, pt)

\* The new points of a paint step are the last harmony points of the pattern.
C13_Kept == Len(paintedPatternRef') - harmony

\* C13: after every paint operation the pattern holds at most 6000 points;
\* its length is the old length plus the appended points, cut to 6000; the
\* points before the appended ones are the newest of the old pattern in their
\* old order, so the evicted ones are exactly the oldest; the appended points
\* are all retained, in insertion order.
C13_BoundedFifo ==
  [][/\ Len(paintedPatternRef') <= 6000
     /\ PaintStep =>
          /\ Len(paintedPatternRef') = Min2(Len(paintedPatternRef) + harmony, 6000)
          /\ SubSeq(paintedPatternRef', 1, C13_Kept) =
               SubSeq(paintedPatternRef, Len(paintedPatternRef) - C13_Kept + 1,
                      Len(paintedPatternRef))
          /\ \E pt \in Points :
               SubSeq(paintedPatternRef', C13_Kept + 1, Len(paintedPatternRef')) =
                 SymmetricPoints(pt)]_vars

\* The pattern is full, its oldest points were evicted in the middle of a
\* stroke (the first point left is not the first of a stroke) and the newest
\* stroke is at another point than the one before it.
C13_Witness ==
  /\ Len(paintedPatternRef) = 6000
  /\ paintedPatternRef[1] # SymmetricPoints(FillPoint)[1]
  /\ paintedPatternRef[6000].dist # paintedPatternRef[6000 - harmony].dist

(***************************************************************************)
(* Painting across mode switches, harmony counts and resizes               *)
(***************************************************************************)
\* Contact points of the mandala: two corners and the middle of the surface.
PaintInputs ==
  LET W == surface["mandala"].W
  IN {[x |-> 0, y |-> 0], [x |-> W, y |-> 0], [x |-> W \div 2, y |-> W \div 2]}

PaintWidths == {1000, 301}

InitPaint == InitCommon /\ DefaultEnv /\ NoLesson /\ audioRunning = TRUE

\* Room for one more counted press or clear within the model's bound.
PaintCountRoom == sessionInteractionRef < MaxPaintCount

NextPaint ==
  \/ \E m \in {"mandala", "journey"} : SetActiveMode(m, TRUE)
  \/ SetSelectedSeed("blue", TRUE)
  \/ \E num \in {3, 12} : SetHarmony(num)
  \/ \E cw \in PaintWidths : WindowResized(cw, innerHeight, devicePixelRatio)
  \/ \E pt \in PaintInputs : PaintCountRoom /\ PaintRoom /\ MandalaOnDown(1, pt)
  \/ \E pt \in PaintInputs : PaintRoom /\ MandalaOnMove(1, pt)
  \/ MandalaOnUp(1)
  \/ PaintCountRoom /\ clearPaintedPattern

SpecPaint == InitPaint /\ [][NextPaint]_vars

\* A step that re-runs the renderers' effects: a mode button or a seed button.
SwitchStep ==
  \/ activeMode' # activeMode
  \/ selectedSeed' # selectedSeed

\* C14: a mode switch, also one made in the middle of a stroke, leaves the
\* points of the pattern as they are, so does the switch back; a pattern that
\* holds points becomes empty only by Clear Pattern, and Clear Pattern leaves
\* no point.
C14_PatternSurvivesModeSwitch ==
  [][/\ SwitchStep => paintedPatternRef' = paintedPatternRef
     /\ (paintedPatternRef # <<>> /\ paintedPatternRef' = <<>>) => clearPaintedPattern
     /\ clearPaintedPattern => paintedPatternRef' = <<>>
     /\ Len(paintedPatternRef') < Len(paintedPatternRef) => clearPaintedPattern]_vars

\* The mandala is live for the second time with a harmony count other than
\* that of its first time, and a stroke of the first time is still in the
\* pattern, followed by one of the second time.
C14_Witness ==
  /\ activeMode = "mandala"
  /\ animId["mandala"] > 2
  /\ harmony = 3
  /\ Len(paintedPatternRef) = 7 + 3
  /\ contacts = {1}

\* A step of the mandala that paints at the point its session then holds.
PaintInputStep ==
  /\ activeMode = "mandala"
  /\ \/ contacts' # contacts /\ \E pt \in PaintInputs : MandalaOnDown(1, pt)
     \/ /\ 1 \in DOMAIN pointers["mandala"]
        /\ \E pt \in PaintInputs : MandalaOnMove(1, pt)

\* C15: for harmony count N a contact-start or a contact-move of a drawing
\* session appends exactly N points; each lies about the centre the surface
\* has at that time, at the distance of the input point from that centre,
\* and the i-th (i = 0 .. N-1) at the input point's angle plus i * (2*pi/N).
C15_SymmetricPaint ==
  [][PaintInputStep =>
       LET W  == surface["mandala"].W
           H  == surface["mandala"].H
           dx == 2 * pointers'["mandala"][1].x - W
           dy == 2 * pointers'["mandala"][1].y - H
           n  == Len(paintedPatternRef)
       IN /\ Len(paintedPatternRef') = n + harmony
          /\ SubSeq(paintedPatternRef', 1, n) = paintedPatternRef
          /\ \A i \in 0..(harmony - 1) :
               LET p == paintedPatternRef'[n + 1 + i]
               IN /\ p.cx = W /\ p.cy = H
                  /\ p.dist = dx * dx + dy * dy
                  /\ p.dist > 0 =>
                       (harmony * (p.angle - Atan2(dy, dx)) - i * 2520)
                         % (harmony * 2520) = 0]_vars

\* With harmony 3 on a surface 301 wide a stroke was started at a corner: its
\* three points are a third of a turn apart; a second input next to the
\* centre has added three points at that input's distance.
C15_Witness ==
  /\ harmony = 3
  /\ surface["mandala"].W = 301
  /\ Len(paintedPatternRef) = 6
  /\ paintedPatternRef[1].dist = 2 * 301 * 301
  /\ paintedPatternRef[3].angle = (paintedPatternRef[1].angle + 2 * 840) % 2520
  /\ paintedPatternRef[6].dist = 1 + 1
  /\ contacts = {1}

(***************************************************************************)
(* Playing the full sequence                                               *)
(***************************************************************************)
\* Values of the tempo slider (min 60, max 180).
TempoInputs == {60, 120, 180}

\* Steps of the clock: a third of the shortest playback.
PlaySteps == {Ms(SequenceMs(180) \div 2)}

InitPlay == InitCommon /\ DefaultEnv /\ NoLesson

\* Room for one more play within the model's bound on the play count.
PlayRoom == playCount + Len(audioWaiters) < MaxPlays

NextPlay ==
  \/ \E m \in {"spiral", "sound", "journey"} : SetActiveMode(m, TRUE)
  \/ \E bpm \in TempoInputs : SetTempo(bpm)
  \/ PlayRoom /\ playSequence
  \/ AudioStarted
  \/ TimerFired
  \/ \E d \in PlaySteps : now + d <= Ms(MaxPlayNow) /\ Tick(d)

SpecPlay == InitPlay /\ [][NextPlay]_vars

\* C16: while a playback is in progress, that is until the 60 * 60/tempo
\* seconds scheduled by the last request that took effect have elapsed, and
\* also while a request is waiting for the audio to start, a further request
\* schedules nothing and does not raise the play count: the play count rises
\* by one request at a time, and only when no scheduled playback is running.
C16_NoRetriggerWhilePlaying ==
  [][/\ playCount' - playCount <= 1
     /\ Len(timers') - Len(timers) <= 1
     /\ playCount' > playCount => \A i \in DOMAIN timers : timers[i] <= now]_vars

(***************************************************************************)
(* Changing the configuration while a renderer is live                     *)
(***************************************************************************)
ConsciousnessInputs == {0, 50, 100}

InitConfig == InitCommon /\ DefaultEnv /\ NoLesson /\ audioRunning = TRUE

NextConfig ==
  \/ \E m \in {"spiral", "particles", "journey"} : SetActiveMode(m, TRUE)
  \/ \E seed \in SeedKey : SetSelectedSeed(seed, TRUE)
  \/ \E value \in ConsciousnessInputs : SetConsciousness(value, TRUE)
  \/ \E num \in HarmonyCounts : SetHarmony(num)
  \/ \E id \in PointerIds, pt \in Points, pressure \in PressureInputs :
       PointerRoom /\ ParticlesOnDown(id, pt, pressure)
  \/ \E id \in PointerIds : ParticlesOnUp(id)
  \/ \E id \in PointerIds, pt \in Points, hit \in BOOLEAN :
       PointerRoom /\ SpiralOnDown(id, pt, hit)
  \/ \E id \in PointerIds : SpiralOnUp(id)
  \/ AnimationFrame

SpecConfig == InitConfig /\ [][NextConfig]_vars

\* C17: a change of the seed, the harmony count or the responsiveness made
\* while a renderer is live leaves that renderer's frame loop, listeners and
\* pointer sessions as they are.
C17_ConfigAppliedLive ==
  [][(/\ activeMode \in CanvasModes
      /\ \/ selectedSeed' # selectedSeed
         \/ harmony' # harmony
         \/ consciousness' # consciousness) =>
       /\ rafQueue' = rafQueue
       /\ animId' = animId
       /\ listeners' = listeners
       /\ pointers' = pointers]_vars

(***************************************************************************)
(* The digit helpers                                                       *)
(***************************************************************************)
OtherThanDigits ==
  <<emitVars, rendererVars, fade, now, mounted, lessonVars, modeVars, pointers, contacts, lastToneAt, audioVars,
    ritualVars, ixVars, playVars, configVars, surfaceVars, paintVars>>

\* A digit of the selected seed becomes the helpers' argument.
ReadSeedDigit(i) ==
  /\ mounted
  /\ digit' = 10 * getSequence(selectedSeed)[i]
  /\ note' = "" /\ color' = "" /\ asmrColor' = ""
  /\ UNCHANGED OtherThanDigits

CallDigitToNote ==
  /\ mounted
  /\ note' = digitToNote(digit)
  /\ UNCHANGED <<digit, color, asmrColor, OtherThanDigits>>

CallDigitToColor ==
  /\ mounted
  /\ color' = digitToColor(digit)
  /\ UNCHANGED <<digit, note, asmrColor, OtherThanDigits>>

CallDigitToAsmrColor ==
  /\ mounted
  /\ asmrColor' = digitToAsmrColor(digit)
  /\ UNCHANGED <<digit, note, color, OtherThanDigits>>

\* Arguments in tenths that are no digit: the integers -3 .. -1 and 10 .. 12
\* and some numbers that are no integer. The digits 0 .. 9 are read from the
\* seeds.
DigitInputs ==
  {10 * k : k \in -3..-1} \cup {10 * k : k \in 10..12}
    \cup {-15, -5, 4, 5, 86, 94, 95, 105}

InitDigits ==
  /\ InitHub /\ DefaultEnv /\ NoLesson /\ audioRunning = TRUE
  /\ digit \in DigitInputs
  /\ NoEmit /\ NoFade /\ NoHelix
  /\ note = "" /\ color = "" /\ asmrColor = ""

NextDigits ==
  \/ \E i \in 1..Len(SEEDS[selectedSeed]) : ReadSeedDigit(i)
  \/ CallDigitToNote
  \/ CallDigitToColor
  \/ CallDigitToAsmrColor
  \/ \E key \in SeedKey : SetSelectedSeed(key, TRUE)

SpecDigits == InitDigits /\ [][NextDigits]_vars

\* The pitch of a note of the scale, in semitones above C0.
C19_Pitch(n) ==
  CASE n = "C4" -> 48 [] n = "D4" -> 50 [] n = "E4" -> 52 [] n = "F4" -> 53
    [] n = "G4" -> 55 [] n = "A4" -> 57 [] n = "B4" -> 59 [] n = "C5" -> 60
    [] n = "D5" -> 62 [] n = "E5" -> 64

\* The value is an entry of the 10-entry table: entry 0 for an integer
\* argument below 0 and entry 9 for one above 9.
C19_Entry(table, value) ==
  /\ Len(table) = 10
  /\ \E k \in 1..10 : value = table[k]
  /\ (digit % 10 = 0 /\ digit < 0) => value = table[1]
  /\ (digit % 10 = 0 /\ digit > 90) => value = table[10]

\* C19: digitToNote, digitToColor and digitToAsmrColor return an entry of the
\* scale or palette for every integer, entry 0 below 0 and entry 9 above 9;
\* digit 9 gives the highest note of the scale and digit 0 the lowest; each
\* seed has 60 characters and each of them is a digit 0..9.
C19_DigitHelpersTotal ==
  /\ note # "" =>
       /\ C19_Entry(SCALE, note)
       /\ digit = 90 => \A k \in 1..10 : C19_Pitch(SCALE[k]) <= C19_Pitch(note)
       /\ digit = 0 => \A k \in 1..10 : C19_Pitch(SCALE[k]) >= C19_Pitch(note)
  /\ color # "" => C19_Entry(COLORS, color)
  /\ asmrColor # "" => C19_Entry(ASMR_COLORS, asmrColor)
  /\ \A key \in SeedKey :
       /\ Len(SEEDS[key]) = 60
       /\ \A i \in 1..60 :
            /\ \E k \in 1..10 : SEEDS[key][i] = DecimalDigits[k]
            /\ getSequence(key)[i] \in 0..9

\* The three helpers were called with 12, above the last digit, and returned
\* the last entry of the scale and of both palettes.
C19_Witness ==
  /\ digit = 120
  /\ note = "E5"
  /\ color = "#f38181"
  /\ asmrColor = "#e879f9"

(***************************************************************************)
(* Resizing the 2-D surfaces                                               *)
(***************************************************************************)
\* host.clientWidth, window.innerHeight and window.devicePixelRatio (in
\* hundredths) after a resize of the window.
SurfaceWidths == {200, 301, 1000}

SurfaceHeights == {400, 425, 1000, 1500}

PixelRatios == {75, 100, 250}

InitSurface == InitCommon /\ DefaultEnv /\ NoLesson /\ audioRunning = TRUE

NextSurface ==
  \/ \E m \in SurfaceModes \cup {"journey"}, ctx \in BOOLEAN : SetActiveMode(m, ctx)
  \/ \E cw \in SurfaceWidths, ih \in SurfaceHeights, ratio \in PixelRatios :
       WindowResized(cw, ih, ratio)
  \/ AnimationFrame

SpecSurface == InitSurface /\ [][NextSurface]_vars

\* The particle field is live: its last setup or resize sized the surface.
ParticlesLive == activeMode = "particles" /\ effectLive["particles"]

C18_Area == surface["particles"].W * surface["particles"].H

\* C18: after every resize of the particle field the particle count is
\* clamp(round(W * H / 4800), 100, 240), so it is within 100..240, and from
\* one resize to the next it does not decrease when the area does not.
C18_ParticleCount ==
  [][ParticlesLive' =>
       /\ \E r \in 0..1000 :
            /\ 2 * 4800 * r <= 2 * C18_Area' + 4800
            /\ 2 * C18_Area' + 4800 < 2 * 4800 * (r + 1)
            /\ particleCount' = (IF r < 100 THEN 100 ELSE IF r > 240 THEN 240 ELSE r)
       /\ particleCount' \in 100..240
       /\ (ParticlesLive /\ C18_Area' >= C18_Area) => particleCount' >= particleCount]_vars

\* The window was resized with the particle field live: the surface is at its
\* largest, 900 x 900, and holds round(168.75) = 169 particles.
C18_Witness ==
  /\ ParticlesLive
  /\ innerHeight = 1500
  /\ surface["particles"].W = 900
  /\ particleCount = 169

\* min(devicePixelRatio, 2), in hundredths.
C20_Ratio == IF devicePixelRatio < 200 THEN devicePixelRatio ELSE 200

\* C20: a 2-D surface that was set up or resized has a logical width and
\* height of at least 260 and at most its mode's maximum (860 for the
\* mandala, 900 for the particle field and the ritual flow); the canvas's
\* buffer is floor(logical * min(devicePixelRatio, 2)) and its context is
\* scaled by that ratio; a renderer whose canvas yields no context is not set
\* up: it has no frame, no listener and no observer, and the hub goes on.
C20_SurfaceSizing ==
  \A m \in SurfaceModes :
    IF effectLive[m]
    THEN /\ activeMode = m
         /\ surface[m].W >= 260 /\ surface[m].H >= 260
         /\ surface[m].W <= (IF m = "mandala" THEN 860 ELSE 900)
         /\ surface[m].H <= (IF m = "mandala" THEN 860 ELSE 900)
         /\ canvas.styleWidth = surface[m].W /\ canvas.styleHeight = surface[m].H
         /\ canvas.width = (surface[m].W * C20_Ratio) \div 100
         /\ canvas.height = (surface[m].H * C20_Ratio) \div 100
         /\ canvas.transform = C20_Ratio
    ELSE /\ listeners[m] = {} /\ ~observers[m]
         /\ \A f \in rafQueue : f.mode # m
         /\ activeMode = m => mounted

\* The ritual flow was resized to the smallest surface on a screen whose pixel
\* ratio is capped, and the mandala before it got no context.
C20_Witness ==
  /\ activeMode = "asmr" /\ effectLive["asmr"]
  /\ clientWidth = 200 /\ devicePixelRatio = 250
  /\ surface["asmr"].W = 260
  /\ canvas.width = 520
  /\ "mandala" \in visitedModes /\ animId["mandala"] = 0

(***************************************************************************)
(* Ritual Flow: what counts as a ripple burst, glides and throttles        *)
(***************************************************************************)
\* C21: in the ritual flow the ripple-burst counter is raised by 1 by every
\* contact-start and by every move that is not throttled, and by nothing
\* else: a contact-end, of a known or an unknown pointer, leaves it unchanged.
C21_RippleCountedOnDownAndMoveOnly ==
  [][/\ asmmrRitual'.rippleBursts > asmmrRitual.rippleBursts =>
          /\ asmmrRitual'.rippleBursts = asmmrRitual.rippleBursts + 1
          /\ \/ \E pt \in Points : AsmrOnDown(1, pt)
             \/ \E pt \in Points : AsmrOnMove(1, pt)
     /\ AsmrOnUp(1) => asmmrRitual'.rippleBursts = asmmrRitual.rippleBursts]_vars

\* Steps of the clock around the shortest glide: 0.1 ms less, 0.4 ms more.
GlideSteps == {Ms(ASMR_GLIDE_MIN_MS) - 1, Ms(ASMR_GLIDE_MIN_MS) + 4}

InitGlide == InitCommon /\ DefaultEnv /\ NoLesson /\ audioRunning = TRUE

NextGlide ==
  \/ \E m \in {"spiral", "asmr"} : SetActiveMode(m, TRUE)
  \/ \E id \in PointerIds : AsmrOnDown(id, [x |-> 0, y |-> 0])
  \/ \E id \in PointerIds : AsmrOnUp(id)
  \/ \E d \in GlideSteps : now + d <= Ms(MaxGlideNow) /\ Tick(d)

SpecGlide == InitGlide /\ [][NextGlide]_vars

\* The time since the contact-start of the session of pointer id.
C22_Duration(id) == now - pointers["asmr"][id].startAt

\* C22 as claimed: a contact-end of a session that lasted d >= 420 ms makes
\* the longest glide max(previous, d); one of a shorter session, or of a
\* pointer without a session, leaves it unchanged.
C22_GlideIsMaxOfDuration ==
  [][\A id \in PointerIds : AsmrOnUp(id) =>
       IF id \in DOMAIN pointers["asmr"] /\ C22_Duration(id) >= 420 * TimeUnit
       THEN asmmrRitual'.longestGlideMs * TimeUnit =
              (IF asmmrRitual.longestGlideMs * TimeUnit >= C22_Duration(id)
               THEN asmmrRitual.longestGlideMs * TimeUnit ELSE C22_Duration(id))
       ELSE asmmrRitual'.longestGlideMs = asmmrRitual.longestGlideMs]_vars

\* C22 as amended: a contact-end of a session that lasted d >= 420 ms, from
\* that contact's own start, makes the longest glide max(previous, d rounded
\* to the nearest millisecond); one of a shorter session, or of a pointer
\* without a session, leaves it unchanged.
C22_GlideIsMaxOfRoundedDuration ==
  [][\A id \in PointerIds : AsmrOnUp(id) =>
       IF id \in DOMAIN pointers["asmr"] /\ C22_Duration(id) >= 420 * TimeUnit
       THEN \E r \in 0..MaxGlideNow + 1 :
              /\ 2 * TimeUnit * r <= 2 * C22_Duration(id) + TimeUnit
              /\ 2 * C22_Duration(id) + TimeUnit < 2 * TimeUnit * (r + 1)
              /\ asmmrRitual'.longestGlideMs =
                   (IF asmmrRitual.longestGlideMs >= r
                    THEN asmmrRitual.longestGlideMs ELSE r)
       ELSE asmmrRitual'.longestGlideMs = asmmrRitual.longestGlideMs]_vars

\* Two contacts overlapped: the first, which lasted 840.3 ms, has ended and
\* left 840; the second, pressed 419.9 ms after the first, is still held.
C22_Witness ==
  /\ activeMode = "asmr"
  /\ asmmrRitual.longestGlideMs = 840
  /\ asmmrRitual.glideCount = 1
  /\ DOMAIN pointers["asmr"] = {2}
  /\ pointers["asmr"][2].startAt = 420 * TimeUnit - 1
  /\ now = 840 * TimeUnit + 3

\* Steps of the clock: 0.1 ms less than the ripple throttle, and the 0.1 ms
\* that completes it.
ThrottleSteps == {Ms(ASMR_EMIT_MS) - 1, 1}

ThrottleRoom(d) ==
  /\ now + d <= Ms(MaxThrottleNow)
  /\ d = 1 => now % TimeUnit # 0

\* Room for one more ripple burst within the model's bound.
ThrottleCountRoom == asmmrRitual.rippleBursts < MaxThrottleRipples

InitThrottle == InitCommon /\ DefaultEnv /\ NoLesson /\ audioRunning = TRUE

NextThrottle ==
  \/ SetActiveMode("asmr", TRUE)
  \/ SetSelectedSeed("blue", TRUE)
  \/ \E id \in PointerIds : ThrottleCountRoom /\ AsmrOnDown(id, [x |-> 0, y |-> 0])
  \/ \E id \in PointerIds, pt \in Points : ThrottleCountRoom /\ AsmrOnMove(id, pt)
  \/ \E id \in PointerIds : ThrottleCountRoom /\ AsmrOnUp(id)
  \/ \E d \in ThrottleSteps : ThrottleRoom(d) /\ Tick(d)

SpecThrottle == InitThrottle /\ [][NextThrottle]_vars

\* C23: in the ritual flow a move-triggered ripple comes at least 66 ms after
\* the previous move-triggered ripple of its session, or after the session's
\* contact-start; a move-triggered tone comes at least 92 ms after the
\* previous move-triggered tone, whichever session triggered that one; a move
\* of a session, throttled or not, stores its position in the session.
C23_MoveThrottles ==
  [][\A id \in PointerIds, pt \in Points :
       (AsmrOnMove(id, pt) /\ id \in DOMAIN pointers["asmr"]) =>
         /\ pointers'["asmr"][id].x = pt.x
         /\ pointers'["asmr"][id].y = pt.y
         /\ asmmrRitual'.rippleBursts > asmmrRitual.rippleBursts =>
              now - lastSessionEmitAt[id] >= 66 * TimeUnit
         /\ asmmrRitual'.toneBursts > asmmrRitual.toneBursts =>
              \/ lastMoveToneAt = <<>>
              \/ now - lastMoveToneAt[1] >= 92 * TimeUnit]_vars

(***************************************************************************)
(* Playing the full sequence: the flag is cleared by the request's timer   *)
(***************************************************************************)
\* Room for the longest playback, requested now, to end within the model's
\* bound on the clock.
PlayTimeRoom == now + Ms(SequenceMs(60)) <= Ms(MaxPlayLiveNow)

\* The clock advances up to the model's bound.
PlayTick == \E d \in PlaySteps : now + d <= Ms(MaxPlayLiveNow) /\ Tick(d)

NextPlayLive ==
  \/ \E m \in {"sound", "journey"} : SetActiveMode(m, TRUE)
  \/ \E bpm \in TempoInputs : SetTempo(bpm)
  \/ PlayRoom /\ PlayTimeRoom /\ playSequence
  \/ PlayTimeRoom /\ AudioStarted
  \/ TimerFired
  \/ PlayTick

\* Time passes and the browser runs a timer once it is due.
SpecPlayLive ==
  InitPlay /\ [][NextPlayLive]_vars /\ WF_vars(TimerFired) /\ WF_vars(PlayTick)

\* C24 (first half): every play request that took effect ends by itself: the
\* playing flag, once set, is cleared again by the request's own timer.
C24_FlagEventuallyCleared == isPlaying ~> ~isPlaying

\* C24: every accepted play request ends by itself, and the playing flag is
\* never cleared while a scheduled playback is still sounding: when the flag
\* goes from set to clear, no request's computed duration is still running.
C24_NotClearedWhileSounding ==
  [][(isPlaying /\ ~isPlaying') =>
       \A i \in DOMAIN timers' : timers'[i] <= now]_vars

(***************************************************************************)
(* Helix renderer: rotating, pinching and the wheel                        *)
(***************************************************************************)
\* One pointer more than the other renderers' specifications: a third finger.
HelixPointerIds == 1..(MaxPointers + 1)

\* Positions on one line, 500 pixels apart.
HelixPoints == {[x |-> 300 * c, y |-> 400 * c] : c \in 0..MaxHelixCoord}

\* e.deltaY of the wheel events.
WheelInputs == {-1200, 1200}

\* Room for one more press and for a further turn within the model's bounds.
HelixPressRoom == sessionInteractionRef < MaxHelixPresses

HelixTurnRoom ==
  /\ helix.targetRotY <= 1500 * MaxHelixTurns
  /\ helix.targetRotY >= -(1500 * MaxHelixTurns)

InitHelix ==
  /\ InitHub /\ NoDigitCall /\ NoEmit /\ NoFade
  /\ helix = HelixStart(TRUE) /\ becameTwo = "none"
  /\ DefaultEnv /\ NoLesson /\ audioRunning = TRUE

NextHelix ==
  \/ \E id \in HelixPointerIds, pt \in HelixPoints :
       HelixPressRoom /\ SpiralOnDown(id, pt, FALSE)
  \/ \E id \in HelixPointerIds, pt \in HelixPoints :
       HelixTurnRoom /\ SpiralOnMove(id, pt, FALSE)
  \/ \E id \in HelixPointerIds : SpiralOnUp(id)
  \/ \E deltaY \in WheelInputs : SpiralOnWheel(deltaY)

SpecHelix == InitHelix /\ [][NextHelix]_vars

\* The number of sessions of the helix renderer.
HelixSessions == Cardinality(DOMAIN pointers["spiral"])

\* A pointermove of a pointer that has a session.
HelixSessionMove ==
  \E id \in DOMAIN pointers["spiral"], pt \in HelixPoints : SpiralOnMove(id, pt, FALSE)

\* The parts of C25 that do not depend on how the count became two: the
\* ranges, rotation with one session only, pinch zoom with two sessions only.
C25_Common ==
  /\ [](/\ helix.cameraZ >= 800 /\ helix.cameraZ <= 3800
        /\ helix.targetRotX >= -1200 /\ helix.targetRotX <= 1200)
  /\ [][/\ (helix'.targetRotX # helix.targetRotX \/ helix'.targetRotY # helix.targetRotY) =>
             (HelixSessionMove /\ HelixSessions = 1 /\ HelixSessions' = 1)
        /\ helix'.cameraZ # helix.cameraZ =>
             \/ \E deltaY \in WheelInputs : SpiralOnWheel(deltaY)
             \/ HelixSessions' = 2]_vars

\* C25 as claimed: the camera distance stays within [8, 38] and the vertical
\* rotation target within [-1.2, 1.2]; the rotation targets change only by a
\* move while exactly one session is active, a pointer event changes the
\* camera distance only while exactly two sessions are active, and the first
\* move of a session after the session count became two, by a press or by a
\* release, leaves the camera distance as it is.
C25_HelixGestures ==
  /\ C25_Common
  /\ [][(becameTwo # "none" /\ HelixSessionMove) => helix'.cameraZ = helix.cameraZ]_vars

(***************************************************************************)
(* Ripples and sparks fade out frame by frame                              *)
(***************************************************************************)
\* Frames until the longest-lived entry, a ripple of alpha 0.88, is removed.
LongestFade == ((880 - 20) \div 13) + 1

\* Every entry of the arrays still has the alpha it was pushed with.
FadeFresh ==
  /\ \A i \in DOMAIN fade.ripples["asmr"] : fade.ripples["asmr"][i] = 880
  /\ \A i \in DOMAIN fade.ripples["particles"] : fade.ripples["particles"][i] = 820
  /\ \A i \in DOMAIN fade.sparks : fade.sparks[i] = 850

\* Room for the frames in which an entry pushed now fades out.
FadeRoom == nextRafId + LongestFade <= MaxFadeRafId

\* Contacts come in bursts between two frames: in the ritual flow a press,
\* if any, begins the burst; in the particle field the burst is short.
EmitRoom == FadeFresh /\ FadeRoom

PressRoom == EmitRoom /\ fade.ripples["asmr"] = <<>>

ParticleRoom == EmitRoom /\ Len(fade.ripples["particles"]) < MaxFadeBurst

\* The draws that add an ambient ripple are followed on an empty array and
\* around the limit of 20 ripples.
LuckyRoom(lucky) ==
  lucky => /\ FadeRoom
           /\ \/ fade.ripples["asmr"] = <<>>
              \/ Len(fade.ripples["asmr"]) >= ASMR_AMBIENT_BELOW - 1

Frame == \E lucky \in BOOLEAN : LuckyRoom(lucky) /\ nextRafId < MaxFadeRafId /\ animate(lucky)

InitFade ==
  /\ InitHub /\ NoDigitCall /\ NoEmit /\ NoHelix /\ fade = FadeStart(TRUE)
  /\ DefaultEnv /\ NoLesson /\ audioRunning = TRUE

NextFade ==
  \/ \E m \in {"particles", "asmr"} : SetActiveMode(m, TRUE)
  \/ PressRoom /\ AsmrOnDown(1, [x |-> 0, y |-> 0])
  \/ EmitRoom /\ AsmrOnUp(1)
  \/ ParticleRoom /\ ParticlesOnDown(1, [x |-> 0, y |-> 0], 0)
  \/ ParticleRoom /\ ParticlesOnUp(1)
  \/ Frame

\* The browser keeps running the frame callbacks of the live renderer.
SpecFade == InitFade /\ [][NextFade]_vars /\ WF_vars(Frame)

\* The entries of an array that a frame keeps, lowered by the frame's step.
C26_Kept(list, step, threshold) ==
  LET Stays(a) == a - step > threshold
      Lower(a) == a - step
      old == SelectSeq(list, Stays)
  IN [i \in DOMAIN old |-> Lower(old[i])]

\* Both arrays of the live asmr renderer, or the array of the live particle
\* field, after a frame: every entry lower than before, none at or below its
\* threshold, and at most one ambient ripple more.
C26_FrameFades ==
  LET ra == fade.ripples["asmr"]
      rp == fade.ripples["particles"]
  IN /\ activeMode = "asmr" =>
          /\ fade'.sparks = C26_Kept(fade.sparks, 18, 30)
          /\ \/ fade'.ripples["asmr"] = C26_Kept(ra, 13, 20)
             \/ /\ fade'.ripples["asmr"] = Append(C26_Kept(ra, 13, 20), 650)
                /\ DOMAIN pointers["asmr"] = {}
                /\ Len(C26_Kept(ra, 13, 20)) < 20
     /\ activeMode = "particles" =>
          fade'.ripples["particles"] = C26_Kept(rp, 16, 20)

\* C26: every ripple and spark is removed after a bounded number of frames:
\* each frame lowers its alpha, the frame in which the alpha is at or below
\* the threshold removes it, and with the loop running and nothing emitted
\* the arrays end up empty; an ambient ripple is added only in a frame with no
\* session and fewer than 20 ripples.
C26_FadeOut ==
  /\ [](/\ \A m \in {"particles", "asmr"} : \A i \in DOMAIN fade.ripples[m] :
              fade.ripples[m][i] > 20 /\ fade.ripples[m][i] <= 880
        /\ \A i \in DOMAIN fade.sparks : fade.sparks[i] > 30 /\ fade.sparks[i] <= 850)
  /\ [][Frame => C26_FrameFades]_vars
  /\ <>[](fade.ripples["asmr"] = <<>> /\ fade.ripples["particles"] = <<>>
          /\ fade.sparks = <<>>)

\* Nineteen contacts and an ambient ripple make 20 ripples; they and the
\* sparks have faded for some frames.
C26_Witness ==
  /\ activeMode = "asmr"
  /\ Len(fade.ripples["asmr"]) = 20
  /\ fade.ripples["asmr"][1] < 880 - 13
  /\ fade.ripples["asmr"][20] < 650
  /\ fade.sparks # <<>>

(***************************************************************************)
(* Nothing of a renderer's handlers happens after its cleanup              *)
(***************************************************************************)
\* C27: once a mode's cleanup has run, nothing that originates from its
\* handlers raises a ritual counter, also when the audio activation that one
\* of its contact-starts requested completes after the cleanup: the ripple,
\* tone and glide counters rise only in steps taken while the ritual flow is
\* the live renderer.
C27_NoIncrementAfterCleanup ==
  [][(\/ asmmrRitual'.toneBursts > asmmrRitual.toneBursts
      \/ asmmrRitual'.rippleBursts > asmmrRitual.rippleBursts
      \/ asmmrRitual'.glideCount > asmmrRitual.glideCount) =>
       (activeMode = "asmr" /\ effectLive["asmr"])]_vars

(***************************************************************************)
(* The focus score and the readiness to seal                               *)
(***************************************************************************)
\* Steps of the clock: a glide one millisecond short of the target, and the
\* missing millisecond.
ScoreSteps == {Ms(ASMMR_TARGETS.glideMs - 1), Ms(1)}

\* Room for the step within the bound on the clock; the millisecond follows
\* the short glide.
ScoreRoom(d) ==
  /\ TimeRoom(d)
  /\ d = Ms(1) => now = Ms(ASMMR_TARGETS.glideMs - 1)

InitScore == InitCommon /\ DefaultEnv /\ NoLesson /\ audioRunning = TRUE

NextScore ==
  \/ SetActiveMode("asmr", TRUE)
  \/ AsmrOnDown(1, [x |-> 0, y |-> 0])
  \/ AsmrOnUp(1)
  \/ \E text \in ReflectionInputs : SetAsmmrReflection(text)
  \/ \E d \in ScoreSteps : ScoreRoom(d) /\ Tick(d)

SpecScore == InitScore /\ [][NextScore]_vars

\* C28: the displayed focus score is 100 exactly when the ritual is ready to
\* be sealed, that is when each of the four goals has reached its target.
C28_FullScoreIffReady == (asmmrFocusScore = 100) <=> asmmrRitualReady

(***************************************************************************)
(* Two contacts paint at the same time                                     *)
(***************************************************************************)
NextPaintTwo ==
  \/ \E m \in {"mandala", "journey"} : SetActiveMode(m, TRUE)
  \/ SetHarmony(3)
  \/ \E id \in PointerIds, pt \in PaintInputs :
       PaintCountRoom /\ PaintRoom /\ MandalaOnDown(id, pt)
  \/ \E id \in PointerIds, pt \in PaintInputs : PaintRoom /\ MandalaOnMove(id, pt)
  \/ \E id \in PointerIds : MandalaOnUp(id)
  \/ PaintCountRoom /\ clearPaintedPattern

SpecPaintTwo == InitPaint /\ [][NextPaintTwo]_vars

\* C29: a point appended to the pattern stays, in its order, until the bound
\* of 6000 evicts it from the front or the pattern is cleared; the state sync
\* at the end of one contact keeps every point, those of another contact that
\* is still painting included, and what that contact appends afterwards is
\* kept in turn.
C29_PointsKept ==
  [][/\ ~clearPaintedPattern =>
          \E k \in 0..Len(paintedPatternRef) :
            /\ k > 0 => Len(paintedPatternRef') = MAX_PAINT_POINTS
            /\ Len(paintedPatternRef') >= Len(paintedPatternRef) - k
            /\ \A i \in (k + 1)..Len(paintedPatternRef) :
                 paintedPatternRef'[i - k] = paintedPatternRef[i]
     /\ \A id \in PointerIds :
          MandalaOnUp(id) =>
            /\ paintedPatternRef' = paintedPatternRef
            /\ paintedPattern' = paintedPatternRef]_vars

\* Two contacts were pressed, the first has ended, and the second, still
\* painting, has appended a stroke by a move.
C29_Witness ==
  /\ activeMode = "mandala"
  /\ sessionInteractionRef = 2
  /\ contacts = {2}
  /\ DOMAIN pointers["mandala"] = {2}
  /\ Len(paintedPatternRef) = 3 * harmony
  /\ paintedPatternRef[2 * harmony + 1] # paintedPatternRef[harmony + 1]
  /\ paintedPattern = paintedPatternRef

(***************************************************************************)
(* The education store: the lesson queue                                   *)
(***************************************************************************)
\* Ids stand for generateId()'s strings, in the order of their Date.now().
LessonIds == 1..MaxLessonId

OtherThanQueue ==
  <<emitVars, digitVars, fade, rendererVars, now, mounted, lessonContext, prePrompt,
    postPrompt, preAcknowledged, showPostPrompt, postResponse, storeCalls, modeVars,
    pointers, contacts, lastToneAt, audioVars, ritualVars, ixVars, playVars, configVars,
    surfaceVars, paintVars>>

\* .map((l, i) => ({ ...l, position: i }))
Reindexed(lessons) == [i \in DOMAIN lessons |-> [lessons[i] EXCEPT !.position = i - 1]]

\* findIndex((l) => l.id === lessonId), counted from 1; 0 stands for -1.
FindIndex(lessons, lessonId) ==
  IF \E i \in DOMAIN lessons : lessons[i].id = lessonId
  THEN CHOOSE i \in DOMAIN lessons :
         /\ lessons[i].id = lessonId
         /\ \A j \in 1..(i - 1) : lessons[j].id # lessonId
  ELSE 0

addLesson(id) ==
  /\ queue' = Append(queue, [id |-> id, position |-> Len(queue)])
  /\ UNCHANGED OtherThanQueue

removeLesson_KeepsPositions(lessonId) ==
  /\ LET Others(l) == l.id # lessonId
     IN queue' = SelectSeq(queue, Others)
  /\ UNCHANGED OtherThanQueue

removeLesson(lessonId) ==
  /\ LET Others(l) == l.id # lessonId
     IN queue' = Reindexed(SelectSeq(queue, Others))
  /\ UNCHANGED OtherThanQueue

reorderQueue(lessonId, direction) ==
  /\ LET idx    == FindIndex(queue, lessonId)
         newIdx == IF direction = "up" THEN idx - 1 ELSE idx + 1
     IN queue' =
          IF idx = 0 THEN queue
          ELSE IF newIdx < 1 \/ newIdx > Len(queue) THEN queue
          ELSE Reindexed([queue EXCEPT ![idx] = queue[newIdx], ![newIdx] = queue[idx]])
  /\ UNCHANGED OtherThanQueue

clearQueue ==
  /\ queue' = <<>>
  /\ UNCHANGED OtherThanQueue

\* Room for one more lesson within the model's bound on the queue.
QueueRoom == Len(queue) < MaxQueue

\* Date.now() of a new lesson is later than that of every queued one.
LaterId(id) == \A i \in DOMAIN queue : queue[i].id < id

InitStore == InitCommon /\ DefaultEnv /\ NoLesson /\ audioRunning = FALSE

NextStore ==
  \/ \E id \in LessonIds : QueueRoom /\ LaterId(id) /\ addLesson(id)
  \/ \E id \in LessonIds : removeLesson(id)
  \/ \E id \in LessonIds, direction \in {"up", "down"} : reorderQueue(id, direction)
  \/ clearQueue

SpecStore == InitStore /\ [][NextStore]_vars

\* C30: after any sequence of addLesson, removeLesson, reorderQueue and
\* clearQueue the position of every queued lesson is its index in the queue,
\* counted from 0; reorderQueue for a lesson that is not queued, or up from the
\* first place, or down from the last, leaves the queue as it is.
C30_PositionsAreIndexes ==
  /\ [](\A i \in DOMAIN queue : queue[i].position = i - 1)
  /\ [][\A id \in LessonIds, direction \in {"up", "down"} :
         (/\ reorderQueue(id, direction)
          /\ \/ \A i \in DOMAIN queue : queue[i].id # id
             \/ direction = "up" /\ queue[1].id = id
             \/ direction = "down" /\ queue[Len(queue)].id = id) =>
           queue' = queue]_vars

\* The lesson created later stands before the one created earlier, so
\* reorderQueue has swapped them, and the positions follow the new order.
C30_Witness ==
  queue = <<[id |-> 3, position |-> 0], [id |-> 1, position |-> 1]>>

====
